---- MODULE Spec2Model ----
(***************************************************************************)
(* Aspire -> Frappe synchronisation (crystal_clean/integrations/aspire).   *)
(*                                                                         *)
(* The model follows sync.py: an orchestration entry point (full_sync,     *)
(* incremental_sync, sync_aspire_data, resync_since) creates a run log,    *)
(* builds the client, runs its entity sync functions one after the other   *)
(* and finalizes the log.  Each entity sync function fetches a remote      *)
(* collection, builds its foreign-key maps from the local store and        *)
(* upserts the records one by one.                                         *)
(*                                                                         *)
(* Conventions: 0 stands for Python's None / a missing or zero ID / a      *)
(* missing document name; NoTime stands for a None timestamp.  Document    *)
(* names are positive numbers handed out in insertion order.  Times are    *)
(* minutes counted from 2025-10-01 00:00; a date is its midnight.          *)
(***************************************************************************)
EXTENDS Integers, Sequences, FiniteSets, TLC

\* ------------------------------------------------------------------ bounds
\* Number of entry point invocations in one behaviour.
MaxRuns == 2
\* Number of environment failures (API errors, database errors) in one behaviour.
MaxFaults == 1
\* Largest number of full pages in a paginated collection.
MaxPages == 2
\* Number of _fetch_all_pages calls made on one client.
MaxFetches == 2
\* Last minute of the client's clock.
MaxClock == 100

\* ------------------------------------------------------ program constants
BATCH_SIZE == 100
page_size == 100
\* timedelta(minutes=50): the cached token is reused for 50 minutes
TokenMinutes == 50
\* fetch_work_tickets(..., months_back=6)
months_back == 6
\* one day, in the minutes the clocks count
Day == 24 * 60

NoTime == -1

VARIABLES
  conf,           \* frappe.conf holds base url, client id and api key
  remote,         \* remote collections, per client fetch operation
  store,          \* local documents, per doctype (the database as the job sees it)
  logs,           \* Aspire Sync Log documents; a log's name is its index
  now,            \* datetime.now()
  pc,             \* where the current invocation stands
  entry,          \* the entry point invoked
  cutoff,         \* its parsed cutoff date (NoTime: none)
  start_time,     \* its start_time
  log_name,       \* the run log it created (0: none)
  modified_since, \* the bound incremental_sync computed (NoTime: none)
  stats,          \* its SyncStats
  all_errors,     \* its run-level error list
  step,           \* index of the current entity sync in the pipeline
  records,        \* the fetched collection of the current entity sync
  idx,            \* enumerate index i (0-based) of the next record
  errors,         \* the current entity sync's error list
  company_map,    \* ForeignKeyMap: company id -> local name
  property_map,   \* ForeignKeyMap: property id -> local name
  uncommitted,    \* records processed since the last frappe.db.commit()
  result,         \* what the last invocation returned or raised
  faults,         \* environment failures so far
  runs,           \* invocations so far
  order,          \* history: entity sync functions started by the current invocation
  issued,         \* history: fetch requests sent by the current invocation
  ev,             \* history: what the last step did
  made,           \* history: run logs created by the current invocation
  received,       \* history: the collections returned to the current invocation
  prev,           \* history: the previous invocation as it ended
  paused,         \* history: BATCH_DELAY pauses taken by the current invocation
  skipped,        \* history: records the current invocation skipped ("continue")
  skip,           \* $skip of the _fetch_all_pages call in progress
  all_records,    \* the records that call has accumulated
  cl,             \* the AspireClient object and the _fetch_all_pages call it is in
  queue,          \* background jobs enqueued by the whitelisted entry points
  ack,            \* what the last whitelisted call returned
  racers,         \* two workers inside sync_companies at the same time
  repair,         \* the repair pass (link_*) in progress
  pure            \* a call of a pure function: its input and its result

\* the synchronisation job's variables
job == <<conf, remote, store, logs, now, pc, entry, cutoff, start_time, log_name,
         modified_since, stats, all_errors, step, records, idx, errors,
         company_map, property_map, uncommitted, result, faults, runs,
         order, issued, ev, made, received, prev, paused, skipped, skip, all_records>>

\* everything else: the job's steps leave it alone
rest == <<cl, queue, ack, racers, repair, pure>>

vars == <<job, rest>>

\* ------------------------------------------------------------ remote side
\* A remote record as the API returns it.  obj is FALSE for an element of the
\* page that is not a JSON object (it has no .get); val stands for the directly
\* mapped payload fields, mod for the record's modification time, sched for a
\* work ticket's ScheduledStartDate.
Rec(i, c, b, p) ==
  [id |-> i, cid |-> c, bid |-> b, pid |-> p, sid |-> 0, val |-> "a", mod |-> 0,
   sched |-> 0, obj |-> TRUE]

\* a work ticket of property 1 scheduled at a given time
Ticket(i, at) == [Rec(i, 0, 0, 1) EXCEPT !.sched = at]

\* the day before the cutoff date 2025-10-01
DayBefore == 0 - Day

\* a day more than months_back * 30 days ago
LongAgo == 0 - (months_back * 30 + 1) * Day

FetchOps == {"fetch_companies", "fetch_properties", "fetch_contacts",
             "fetch_opportunities", "fetch_contracts", "fetch_work_tickets"}

\* The collections behind each fetch operation's fixed predicates.  Company 1
\* is listed twice; the second opportunity bills a company that does not exist;
\* the second work ticket was scheduled for the day before 2025-10-01 and the
\* third more than months_back * 30 days ago.
CleanRemote ==
  [op \in FetchOps |->
     CASE op = "fetch_companies"     -> <<Rec(1, 0, 0, 0), Rec(1, 0, 0, 0)>>
       [] op = "fetch_properties"    -> <<Rec(1, 1, 0, 0)>>
       [] op = "fetch_contacts"      -> <<Rec(1, 1, 0, 0)>>
       [] op = "fetch_opportunities" -> <<Rec(1, 1, 0, 1), Rec(2, 1, 7, 1)>>
       [] op = "fetch_contracts"     -> <<Rec(1, 1, 0, 1), Rec(2, 1, 7, 1)>>
       [] op = "fetch_work_tickets"  -> <<Ticket(1, 0), Ticket(2, DayBefore),
                                          Ticket(3, LongAgo)>>]

\* The same collections with a contact page that holds a non-object element.
BrokenRemote ==
  [CleanRemote EXCEPT !["fetch_contacts"] = <<[Rec(1, 1, 0, 0) EXCEPT !.obj = FALSE]>>]

\* Collections whose records 1, 2, 3 were last modified at times 1, 2, 3; record
\* i refers to company i and property i.
TimedRemote ==
  [op \in FetchOps |->
     [i \in 1..3 |->
        [Rec(i, IF op = "fetch_companies" THEN 0 ELSE i, 0,
             IF op \in {"fetch_opportunities", "fetch_contracts", "fetch_work_tickets"}
             THEN i ELSE 0)
         EXCEPT !.mod = i]]]

\* Collections longer than one batch: BATCH_SIZE + 1 contacts, and BATCH_SIZE + 1
\* opportunities (and contracts) of which the BATCH_SIZE-th bills a company that
\* does not exist.
BigRemote ==
  [op \in FetchOps |->
     CASE op = "fetch_companies"    -> <<Rec(1, 0, 0, 0)>>
       [] op = "fetch_properties"   -> <<Rec(1, 1, 0, 0)>>
       [] op = "fetch_contacts"     -> [i \in 1..(BATCH_SIZE + 1) |-> Rec(i, 1, 0, 0)]
       [] op = "fetch_work_tickets" -> <<Rec(1, 0, 0, 1)>>
       [] OTHER -> [i \in 1..(BATCH_SIZE + 1) |->
                      Rec(i, 1, IF i = BATCH_SIZE THEN 7 ELSE 0, 1)]]

\* strftime("%Y-%m-%d"): the date of a time, as its midnight
Midnight(t) == (t \div Day) * Day

\* fetch_work_tickets: schedule_cutoff is cutoff_date if given, else
\* datetime.now() - timedelta(days=months_back * 30); the filter carries its date
ScheduleCutoff(co, today) ==
  Midnight(IF co # NoTime THEN co ELSE today - months_back * 30 * Day)

\* mutant of Matching: the modified_since bound is inclusive
Matching_Inclusive(coll, ms, co, sc) ==
  SelectSeq(coll, LAMBDA r : /\ (sc = NoTime \/ r.sched >= sc)
                             /\ (co = NoTime \/ r.mod >= co)
                             /\ (ms = NoTime \/ r.mod >= ms))

\* What the remote API returns for a filter "scheduled >= schedule cutoff and
\* modified >= cutoff and modified > modified_since" over a collection
\* (client.py builds the filter: fetch_work_tickets alone sends the schedule
\* bound, and always; each of the other bounds is present only when given).
Matching(coll, ms, co, sc) ==
  SelectSeq(coll, LAMBDA r : /\ (sc = NoTime \/ r.sched >= sc)
                             /\ (co = NoTime \/ r.mod >= co)
                             /\ (ms = NoTime \/ r.mod > ms))

\* --------------------------------------------------------------- transform
Doc(e, v, c, p, t) ==
  [ext |-> e, val |-> v, company |-> c, property |-> p, service |-> 0, synced |-> t]

transform_company_to_customer(r, t) == Doc(r.id, r.val, 0, 0, t)
transform_property_to_service_property(r, customer_name, t) == Doc(r.id, r.val, customer_name, 0, t)
transform_contact(r, customer_name, t) == Doc(r.id, r.val, customer_name, 0, t)
transform_opportunity(r, customer_name, property_name, t) == Doc(r.id, r.val, customer_name, property_name, t)
transform_work_ticket(r, property_name, t) ==
  [Doc(r.id, r.val, 0, property_name, t) EXCEPT !.service = r.sid]
transform_to_aspire_company(r, t) == Doc(r.id, r.val, 0, 0, t)
transform_to_aspire_contact(r, company_name, t) == Doc(r.id, r.val, company_name, 0, t)
transform_to_aspire_contract(r, company_name, property_name, t) == Doc(r.id, r.val, company_name, property_name, t)

\* ------------------------------------------------------- sync function table
Doctypes == {"Customer", "Service Property", "Contact", "Opportunity", "Work Ticket",
             "Aspire Company", "Aspire Contact", "Aspire Contract"}

\* client.fetch_* called by each sync function
fetch_of(fn) ==
  CASE fn = "sync_companies"        -> "fetch_companies"
    [] fn = "sync_properties"       -> "fetch_properties"
    [] fn = "sync_contacts"         -> "fetch_contacts"
    [] fn = "sync_opportunities"    -> "fetch_opportunities"
    [] fn = "sync_work_tickets"     -> "fetch_work_tickets"
    [] fn = "sync_aspire_companies" -> "fetch_companies"
    [] fn = "sync_aspire_contacts"  -> "fetch_contacts"
    [] fn = "sync_aspire_contracts" -> "fetch_contracts"

\* the doctype each sync function looks up and writes
doctype_of(fn) ==
  CASE fn = "sync_companies"        -> "Customer"
    [] fn = "sync_properties"       -> "Service Property"
    [] fn = "sync_contacts"         -> "Contact"
    [] fn = "sync_opportunities"    -> "Opportunity"
    [] fn = "sync_work_tickets"     -> "Work Ticket"
    [] fn = "sync_aspire_companies" -> "Aspire Company"
    [] fn = "sync_aspire_contacts"  -> "Aspire Contact"
    [] fn = "sync_aspire_contracts" -> "Aspire Contract"

\* the "entity" its error entries carry
entity_of(fn) ==
  CASE fn = "sync_companies"        -> "Company"
    [] fn = "sync_properties"       -> "Property"
    [] fn = "sync_contacts"         -> "Contact"
    [] fn = "sync_opportunities"    -> "Opportunity"
    [] fn = "sync_work_tickets"     -> "WorkTicket"
    [] fn = "sync_aspire_companies" -> "Aspire Company"
    [] fn = "sync_aspire_contacts"  -> "Aspire Contact"
    [] fn = "sync_aspire_contracts" -> "Aspire Contract"

\* the doctype its company_map is read from ("" when it builds none)
company_source(fn) ==
  CASE fn \in {"sync_properties", "sync_contacts", "sync_opportunities"} -> "Customer"
    [] fn \in {"sync_aspire_contacts", "sync_aspire_contracts"}         -> "Aspire Company"
    [] OTHER                                                            -> ""

\* the doctype its property_map is read from ("" when it builds none)
property_source(fn) ==
  IF fn \in {"sync_opportunities", "sync_work_tickets", "sync_aspire_contracts"}
  THEN "Service Property" ELSE ""

\* for c in docs: if c.<id>: map[c.<id>] = c.name      (a later document wins)
BuildMap(docs) ==
  [k \in {docs[i].ext : i \in DOMAIN docs} \ {0} |->
     LET last == CHOOSE i \in DOMAIN docs :
                   /\ docs[i].ext = k
                   /\ \A j \in DOMAIN docs : docs[j].ext = k => j <= i
     IN docs[last].name]

\* dict.get
MapGet(m, k) == IF k \in DOMAIN m THEN m[k] ELSE 0


\* mutant of company_id: CompanyID is preferred to BillingCompanyID
company_id_PrefersCompany(fn, r) ==
  IF fn \in {"sync_opportunities", "sync_aspire_contracts"}
  THEN (IF r.cid # 0 THEN r.cid ELSE r.bid)
  ELSE r.cid

\* the company id a record is resolved by
company_id(fn, r) ==
  IF fn \in {"sync_opportunities", "sync_aspire_contracts"}
  THEN (IF r.bid # 0 THEN r.bid ELSE r.cid)     \* BillingCompanyID or CompanyID
  ELSE r.cid

\* mutant of SkipsUnresolved: only sync_opportunities has the guard
SkipsUnresolved_OpportunitiesOnly(fn) == fn = "sync_opportunities"

\* "if not customer_name: continue"
SkipsUnresolved(fn) == fn \in {"sync_opportunities", "sync_aspire_contracts"}

\* the transformed record each sync function upserts
Transformed(fn, r, cname, pname, t) ==
  CASE fn = "sync_companies"        -> transform_company_to_customer(r, t)
    [] fn = "sync_properties"       -> transform_property_to_service_property(r, cname, t)
    [] fn = "sync_contacts"         -> transform_contact(r, cname, t)
    [] fn = "sync_opportunities"    -> transform_opportunity(r, cname, pname, t)
    [] fn = "sync_work_tickets"     -> transform_work_ticket(r, pname, t)
    [] fn = "sync_aspire_companies" -> transform_to_aspire_company(r, t)
    [] fn = "sync_aspire_contacts"  -> transform_to_aspire_contact(r, cname, t)
    [] fn = "sync_aspire_contracts" -> transform_to_aspire_contract(r, cname, pname, t)

\* mutant of GetValue: the lookup filters on a field that never matches
GetValue_NeverFinds(docs, aspire_id) == 0

\* frappe.db.get_value(doctype, {<id field>: aspire_id}, "name")
GetValue(docs, aspire_id) ==
  IF \E i \in DOMAIN docs : docs[i].ext = aspire_id
  THEN docs[CHOOSE i \in DOMAIN docs :
              docs[i].ext = aspire_id /\ \A j \in DOMAIN docs : docs[j].ext = aspire_id => i <= j].name
  ELSE 0

Named(data, n) == [name |-> n, ext |-> data.ext, val |-> data.val, company |-> data.company,
                   property |-> data.property, service |-> data.service,
                   synced |-> data.synced]

\* mutant of Merged: the update writes the transformed record without its
\* resolved links
Merged_DropsLinks(fn, doc, data) ==
  [doc EXCEPT !.val = data.val, !.synced = data.synced, !.company = 0, !.property = 0]

\* the "if existing:" branch: sync_contacts sets the basic fields only, the
\* others every transformed field
Merged(fn, doc, data) ==
  IF fn = "sync_contacts"
  THEN [doc EXCEPT !.val = data.val, !.synced = data.synced]
  ELSE Named(data, doc.name)

\* look the record up by its external id, then save the merged document or
\* insert a new one
Upsert(fn, docs, data) ==
  LET existing == GetValue(docs, data.ext) IN
  IF existing # 0
  THEN [i \in DOMAIN docs |-> IF docs[i].name = existing THEN Merged(fn, docs[i], data) ELSE docs[i]]
  ELSE Append(docs, Named(data, Len(docs) + 1))

\* ---------------------------------------------------------------- run logs
ZeroStats == [pulled |-> 0, created |-> 0, updated |-> 0, errors |-> 0]

\* mutant of create_sync_log: the new log carries no status
create_sync_log_NoStatus(sync_type, entity_type) ==
  [sync_type |-> sync_type, entity_type |-> entity_type, status |-> "",
   records_pulled |-> 0, records_created |-> 0, records_updated |-> 0, errors |-> 0,
   completed_at |-> NoTime, sync_duration_seconds |-> 0, error_details |-> <<>>]

create_sync_log(sync_type, entity_type) ==
  [sync_type |-> sync_type, entity_type |-> entity_type, status |-> "Running",
   records_pulled |-> 0, records_created |-> 0, records_updated |-> 0, errors |-> 0,
   completed_at |-> NoTime, sync_duration_seconds |-> 0, error_details |-> <<>>]

update_sync_log(log, status, st, errs, duration, t) ==
  [log EXCEPT !.status = status,
              !.records_pulled = st.pulled,
              !.records_created = st.created,
              !.records_updated = st.updated,
              !.errors = st.errors,
              !.completed_at = t,
              !.sync_duration_seconds = IF duration # 0 THEN duration ELSE @,
              !.error_details = IF errs # <<>> THEN errs ELSE @]

\* mutant of LastSyncFilter: any finished run counts
LastSyncFilter_AnyFinished(log, entity_type) ==
  /\ log.status # "Running"
  /\ (entity_type # "All" => log.entity_type = entity_type)

\* status filter of get_last_sync_date
LastSyncFilter(log, entity_type) ==
  /\ log.status = "Success"
  /\ (entity_type # "All" => log.entity_type = entity_type)

\* order_by completed_at desc, limit 1
get_last_sync_date(ls, entity_type) ==
  LET hits == {i \in DOMAIN ls : LastSyncFilter(ls[i], entity_type)} IN
  IF hits = {} THEN NoTime
  ELSE ls[CHOOSE i \in hits : \A j \in hits : ls[j].completed_at <= ls[i].completed_at].completed_at

\* ---------------------------------------------------------------- pipelines
LegacyPipeline == <<"sync_companies", "sync_properties", "sync_contacts",
                    "sync_opportunities", "sync_work_tickets">>

AspirePipeline == <<"sync_aspire_companies", "sync_properties", "sync_aspire_contacts",
                    "sync_aspire_contracts">>

\* mutant of Pipeline: properties are synced before companies
Pipeline_PropertiesFirst(e) ==
  IF e = "sync_aspire_data" THEN AspirePipeline
  ELSE <<"sync_properties", "sync_companies", "sync_contacts",
         "sync_opportunities", "sync_work_tickets">>

Pipeline(e) == IF e = "sync_aspire_data" THEN AspirePipeline ELSE LegacyPipeline

SyncType(e) ==
  CASE e = "full_sync"        -> "Full"
    [] e = "incremental_sync" -> "Incremental"
    [] OTHER                  -> "Manual"

\* datetime.strptime(cutoff_date_str, "%Y-%m-%d"): the strings that parse, and
\* the time each stands for
CutoffDates == ("2025-10-01" :> 0)

Returned(st) == [kind |-> "returned", value |-> st]     \* stats.to_dict()
Raised(exc) == [kind |-> "raised", value |-> exc]

\* ------------------------------------------------------------------ client
\* AspireClient.__init__ (credentials present): no token, no expiry.  The other
\* fields are the locals of the _fetch_all_pages call in progress (n: size of
\* the matching remote collection, whose records are 1..n in remote order) and
\* what the client has sent: requests, the inter-page sleeps, the log_error
\* calls, whether the last step issued the authentication POST, whether the
\* last authentication POST raised.
NewClient ==
  [token |-> 0, token_expires |-> NoTime, obtained |-> NoTime, clock |-> 0,
   call |-> "idle", n |-> 0, skip |-> 0, all_records |-> <<>>, requests |-> <<>>,
   delays |-> 0, logged |-> 0, clean |-> TRUE, fetches |-> 0, act |-> "init",
   posted |-> FALSE, failed |-> FALSE]

\* ------------------------------------------------------------------ state

\* no worker is inside sync_companies
NoRacers ==
  [w \in 1..2 |-> [pc |-> "idle", idx |-> 0, existing |-> 0, log |-> 0, records |-> <<>>,
                   created |-> 0, updated |-> 0]]

\* no repair pass has been started
NoRepair ==
  [pass |-> "", pc |-> "idle", fetched |-> <<>>, first |-> <<>>, second |-> <<>>,
   targets |-> <<>>, i |-> 0, updated |-> 0, not_found |-> 0, pending |-> 0,
   site |-> <<>>, again |-> FALSE,
   before |-> [pass |-> "", fetched |-> <<>>, updated |-> 0, not_found |-> 0]]

\* no pure function has been called
NoCall == [fn |-> "", phase |-> "none"]

\* no invocation has been made: no log, a client just constructed, no job queued
Quiet ==
  /\ logs = <<>>
  /\ now = 1
  /\ pc = "idle"
  /\ entry = ""
  /\ cutoff = NoTime
  /\ start_time = NoTime
  /\ log_name = 0
  /\ modified_since = NoTime
  /\ stats = ZeroStats
  /\ all_errors = <<>>
  /\ step = 0
  /\ records = <<>>
  /\ idx = 0
  /\ errors = <<>>
  /\ company_map = BuildMap(<<>>)
  /\ property_map = BuildMap(<<>>)
  /\ uncommitted = 0
  /\ result = [kind |-> "none"]
  /\ faults = 0
  /\ runs = 0
  /\ order = <<>>
  /\ issued = <<>>
  /\ ev = "init"
  /\ made = 0
  /\ received = <<>>
  /\ prev = [entry |-> "", cutoff |-> NoTime, ev |-> "init", stats |-> ZeroStats,
             store |-> [d \in Doctypes |-> <<>>], issued |-> <<>>, received |-> <<>>,
             remote |-> remote]
  /\ paused = 0
  /\ skipped = 0
  /\ skip = 0
  /\ all_records = <<>>
  /\ cl = NewClient
  /\ queue = <<>>
  /\ ack = ""
  /\ racers = NoRacers

\* nothing has run yet: an empty site, and nothing in progress
Idle ==
  /\ store = [d \in Doctypes |-> <<>>]
  /\ Quiet
  /\ repair = NoRepair
  /\ pure = NoCall

Init ==
  /\ conf \in BOOLEAN
  /\ remote \in {CleanRemote, BrokenRemote}
  /\ Idle

\* what every invocation starts from
Fresh(e) ==
  /\ pc = "idle"
  /\ runs < MaxRuns
  /\ runs' = runs + 1
  /\ prev' = [entry |-> entry, cutoff |-> cutoff, ev |-> ev, stats |-> stats,
              store |-> store, issued |-> issued, received |-> received,
              remote |-> remote]
  /\ entry' = e
  /\ step' = 0
  /\ records' = <<>>
  /\ idx' = 0
  /\ errors' = <<>>
  /\ company_map' = BuildMap(<<>>)
  /\ property_map' = BuildMap(<<>>)
  /\ order' = <<>>
  /\ issued' = <<>>
  /\ received' = <<>>
  /\ paused' = 0
  /\ skipped' = 0
  /\ UNCHANGED <<conf, remote, store, faults, skip, all_records, rest>>

\* The head of an entry point, up to the try block: start_time, create_sync_log,
\* SyncStats(), all_errors = [], and for incremental_sync get_last_sync_date().
\* create_sync_log ends with frappe.db.commit(): whatever an earlier invocation
\* left pending is committed with the new log.
Begin(e, co) ==
  /\ Fresh(e)
  /\ cutoff' = co
  /\ start_time' = now
  /\ logs' = Append(logs, create_sync_log(SyncType(e), "All"))
  /\ uncommitted' = 0
  /\ log_name' = Len(logs) + 1
  /\ made' = 1
  /\ stats' = ZeroStats
  /\ all_errors' = <<>>
  /\ modified_since' = IF e = "incremental_sync" THEN get_last_sync_date(logs', "All") ELSE NoTime
  /\ result' = [kind |-> "none"]
  /\ pc' = "client"
  /\ ev' = "begin"
  /\ now' = now + 1

\* strptime raises ValueError before anything else happened
BadCutoff(e) ==
  /\ Fresh(e)
  /\ cutoff' = NoTime
  /\ start_time' = NoTime
  /\ log_name' = 0
  /\ made' = 0
  /\ stats' = ZeroStats
  /\ all_errors' = <<>>
  /\ modified_since' = NoTime
  /\ result' = Raised("ValueError")
  /\ pc' = "idle"
  /\ ev' = "bad_argument"
  /\ UNCHANGED <<logs, now, uncommitted>>

full_sync == Begin("full_sync", NoTime)

incremental_sync == Begin("incremental_sync", NoTime)

\* cutoff_date_str: "" (none given), a date, or a string that is no date
sync_aspire_data(cutoff_date_str) ==
  IF cutoff_date_str = "" THEN Begin("sync_aspire_data", NoTime)
  ELSE IF cutoff_date_str \in DOMAIN CutoffDates
       THEN Begin("sync_aspire_data", CutoffDates[cutoff_date_str])
       ELSE BadCutoff("sync_aspire_data")

resync_since(cutoff_date_str) ==
  IF cutoff_date_str \in DOMAIN CutoffDates
  THEN Begin("resync_since", CutoffDates[cutoff_date_str])
  ELSE BadCutoff("resync_since")

\* mutant of OnAspireAPIError: the handler records the run as Partial
OnAspireAPIError_Partial(msg) ==
  LET duration == now - start_time
      errs == Append(all_errors, [entity |-> "API", error |-> msg])
      st == [stats EXCEPT !.errors = @ + 1]
  IN /\ all_errors' = errs
     /\ stats' = st
     /\ logs' = [logs EXCEPT ![log_name] = update_sync_log(@, "Partial", st, errs, duration, now)]
     /\ result' = Returned(st)
     /\ uncommitted' = 0
     /\ pc' = "idle"
     /\ ev' = "failed"
     /\ now' = now + 1

\* except AspireAPIError as e: ... update_sync_log(log_name, "Failed", ...),
\* which commits; then return stats.to_dict()
OnAspireAPIError(msg) ==
  LET duration == now - start_time
      errs == Append(all_errors, [entity |-> "API", error |-> msg])
      st == [stats EXCEPT !.errors = @ + 1]
  IN /\ all_errors' = errs
     /\ stats' = st
     /\ logs' = [logs EXCEPT ![log_name] = update_sync_log(@, "Failed", st, errs, duration, now)]
     /\ result' = Returned(st)
     /\ uncommitted' = 0
     /\ pc' = "idle"
     /\ ev' = "failed"
     /\ now' = now + 1

\* any other exception leaves the entry point
Propagate(exc, how) ==
  /\ result' = Raised(exc)
  /\ pc' = "idle"
  /\ ev' = how

\* mutant of AspireClient: the constructor does not check the credentials
AspireClient_Unchecked ==
  /\ pc = "client"
  /\ pc' = "fetch"
  /\ step' = 1
  /\ ev' = "client"
  /\ UNCHANGED <<all_errors, stats, logs, result, now>>
  /\ UNCHANGED <<conf, remote, store, entry, cutoff, start_time, log_name, modified_since,
                 records, idx, errors, company_map, property_map, uncommitted, faults,
                 runs, order, issued, made, received, prev, paused, skipped, skip, all_records, rest>>

\* client = AspireClient()
AspireClient ==
  /\ pc = "client"
  /\ IF conf
     THEN /\ pc' = "fetch"
          /\ step' = 1
          /\ ev' = "client"
          /\ UNCHANGED <<all_errors, stats, logs, result, now, uncommitted>>
     ELSE /\ OnAspireAPIError("Aspire API credentials not configured")
          /\ UNCHANGED step
  /\ UNCHANGED <<conf, remote, store, entry, cutoff, start_time, log_name, modified_since,
                 records, idx, errors, company_map, property_map, faults,
                 runs, order, issued, made, received, prev, paused, skipped, skip, all_records, rest>>

CurrentFn == Pipeline(entry)[step]

\* the call client.fetch_*(modified_since, cutoff_date) an entity sync makes, with
\* the schedule bound fetch_work_tickets puts into its filter
Request(fn) ==
  [op |-> fetch_of(fn), modified_since |-> modified_since, cutoff_date |-> cutoff,
   schedule_cutoff |-> IF fetch_of(fn) = "fetch_work_tickets"
                       THEN ScheduleCutoff(cutoff, now) ELSE NoTime]

\* the records of the remote collection that match a request's filter now
Served(req) ==
  Matching(remote[req.op], req.modified_since, req.cutoff_date, req.schedule_cutoff)

\* the server's answer to "$top = page_size, $skip = from" over the matching
\* records, in remote order
PageAt(matching, from) ==
  IF Len(matching) <= from THEN <<>>
  ELSE SubSeq(matching, from + 1,
              IF Len(matching) < from + page_size THEN Len(matching) ELSE from + page_size)

\* mutant of Continues: a full page ends the pagination too
Continues_ShortOrFull(data) == Len(data) # 0 /\ ~(Len(data) <= page_size)

\* neither "if not data: break" nor "if len(data) < self.page_size: break"
Continues(data) == Len(data) # 0 /\ ~(Len(data) < page_size)

\* the request of the fetch in progress: the filter is built once, before the
\* first page is asked for
CurrentRequest == IF skip = 0 THEN Request(CurrentFn) ELSE issued[Len(issued)]

\* One GET of the fetch an entity sync function starts with.  is_list: the
\* response is a list.  A full page is added to all_records and, after
\* time.sleep(0.1), the next page is asked for in a later step, from the
\* remote collection as it is then.  A short or empty page, or a response that
\* is not a list (logged), ends _fetch_all_pages with what it has: the entity
\* sync adds it to stats.pulled and builds its maps.
FetchWith(is_list) ==
  /\ pc = "fetch"
  /\ LET fn == CurrentFn
         data == IF is_list THEN PageAt(Served(CurrentRequest), skip) ELSE <<>>
         got == all_records \o data
     IN /\ order' = IF skip = 0 THEN Append(order, fn) ELSE order
        /\ issued' = IF skip = 0 THEN Append(issued, Request(fn)) ELSE issued
        /\ IF Continues(data)
           THEN /\ skip' = skip + page_size
                /\ all_records' = got
                /\ ev' = "page"
                /\ UNCHANGED <<received, records, stats, company_map, property_map,
                               errors, idx, pc>>
           ELSE /\ skip' = 0
                /\ all_records' = <<>>
                /\ received' = Append(received, got)
                /\ records' = got
                /\ stats' = [stats EXCEPT !.pulled = @ + Len(got)]
                /\ company_map' = IF company_source(fn) # ""
                                  THEN BuildMap(store[company_source(fn)])
                                  ELSE BuildMap(<<>>)
                /\ property_map' = IF property_source(fn) # ""
                                   THEN BuildMap(store[property_source(fn)])
                                   ELSE BuildMap(<<>>)
                /\ errors' = <<>>
                /\ idx' = 0
                /\ pc' = "loop"
                /\ ev' = "fetched"
  /\ UNCHANGED <<conf, remote, store, logs, now, entry, cutoff, start_time, log_name,
                 modified_since, all_errors, step, uncommitted, result, runs, made, prev, paused, skipped, rest>>

Fetch == FetchWith(TRUE) /\ UNCHANGED faults

\* The response to the page asked for is not a list: logged, the loop breaks.
FetchMalformed ==
  /\ faults < MaxFaults
  /\ faults' = faults + 1
  /\ FetchWith(FALSE)


\* mutant of FetchFails: the failure rolls the run's writes back
FetchFails_RollsBack ==
  /\ pc = "fetch"
  /\ faults < MaxFaults
  /\ faults' = faults + 1
  /\ order' = (IF skip = 0 THEN Append(order, CurrentFn) ELSE order)
  /\ issued' = (IF skip = 0 THEN Append(issued, Request(CurrentFn)) ELSE issued)
  /\ skip' = 0
  /\ all_records' = <<>>
  /\ OnAspireAPIError("Failed to connect to Aspire API")
  /\ store' = prev.store
  /\ UNCHANGED <<conf, remote, entry, cutoff, start_time, log_name, modified_since,
                 step, records, idx, errors, company_map, property_map,
                 runs, made, received, prev, paused, skipped, rest>>

\* The client raises AspireAPIError (authentication, transport, non-2xx) at the
\* page asked for: what the call has accumulated is lost with it.
FetchFails ==
  /\ pc = "fetch"
  /\ faults < MaxFaults
  /\ faults' = faults + 1
  /\ order' = (IF skip = 0 THEN Append(order, CurrentFn) ELSE order)
  /\ issued' = (IF skip = 0 THEN Append(issued, Request(CurrentFn)) ELSE issued)
  /\ skip' = 0
  /\ all_records' = <<>>
  /\ OnAspireAPIError("Failed to connect to Aspire API")
  /\ UNCHANGED <<conf, remote, store, entry, cutoff, start_time, log_name, modified_since,
                 step, records, idx, errors, company_map, property_map,
                 runs, made, received, prev, paused, skipped, rest>>

\* The last page is answered and frappe.get_all raises while a map is built:
\* not an AspireAPIError.
MapFails ==
  /\ pc = "fetch"
  /\ faults < MaxFaults
  /\ company_source(CurrentFn) # "" \/ property_source(CurrentFn) # ""
  /\ LET data == PageAt(Served(CurrentRequest), skip)
         got == all_records \o data
     IN /\ ~Continues(data)
        /\ received' = Append(received, got)
        /\ stats' = [stats EXCEPT !.pulled = @ + Len(got)]
  /\ faults' = faults + 1
  /\ order' = (IF skip = 0 THEN Append(order, CurrentFn) ELSE order)
  /\ issued' = (IF skip = 0 THEN Append(issued, Request(CurrentFn)) ELSE issued)
  /\ skip' = 0
  /\ all_records' = <<>>
  /\ Propagate("DatabaseError", "map_raised")
  /\ UNCHANGED <<conf, remote, store, logs, now, entry, cutoff, start_time, log_name,
                 modified_since, all_errors, step, records, idx, errors, company_map,
                 property_map, uncommitted, runs, made, prev, paused, skipped, rest>>

\* "if (i + 1) % BATCH_SIZE == 0: frappe.db.commit()"
AfterRecord(i, pending) == IF (i + 1) % BATCH_SIZE = 0 THEN 0 ELSE pending + 1

\* "... time.sleep(BATCH_DELAY)"
Pauses(i, p) == IF (i + 1) % BATCH_SIZE = 0 THEN p + 1 ELSE p

ErrorEntry(fn, r, msg) == [entity |-> entity_of(fn), id |-> r.id, error |-> msg]

\* One iteration of the record loop in which nothing outside the code fails.
ProcessRecord ==
  /\ pc = "loop"
  /\ idx < Len(records)
  /\ LET fn == CurrentFn
         r == records[idx + 1]
         dt == doctype_of(fn)
         cname == MapGet(company_map, company_id(fn, r))
         pname == MapGet(property_map, r.pid)
     IN IF ~r.obj
        THEN \* r.get raises in the try block and again in the except block,
             \* after stats.errors += 1
             /\ stats' = [stats EXCEPT !.errors = @ + 1]
             /\ Propagate("AttributeError", "handler_raised")
             /\ UNCHANGED <<store, idx, uncommitted, paused, skipped>>
        ELSE IF SkipsUnresolved(fn) /\ cname = 0
        THEN \* continue
             /\ idx' = idx + 1
             /\ uncommitted' = uncommitted + 1
             /\ ev' = "skipped"
             /\ skipped' = skipped + 1
             /\ UNCHANGED <<store, stats, result, pc, paused>>
        ELSE /\ store' = [store EXCEPT ![dt] = Upsert(fn, @, Transformed(fn, r, cname, pname, now))]
             /\ stats' = IF GetValue(store[dt], r.id) # 0
                         THEN [stats EXCEPT !.updated = @ + 1]
                         ELSE [stats EXCEPT !.created = @ + 1]
             /\ ev' = IF GetValue(store[dt], r.id) # 0 THEN "updated" ELSE "created"
             /\ idx' = idx + 1
             /\ uncommitted' = AfterRecord(idx, uncommitted)
             /\ paused' = Pauses(idx, paused)
             /\ UNCHANGED <<result, pc, skipped>>
  /\ UNCHANGED <<conf, remote, logs, now, entry, cutoff, start_time, log_name,
                 modified_since, all_errors, step, records, errors, company_map,
                 property_map, faults, runs, order, issued, made, received, prev, skip, all_records, rest>>


\* mutant of ProcessRecordRaises: the failed record is counted as an error and
\* as an update
ProcessRecordRaises_CountsTwice ==
  /\ pc = "loop"
  /\ idx < Len(records)
  /\ faults < MaxFaults
  /\ LET fn == CurrentFn
         r == records[idx + 1]
     IN /\ r.obj
        /\ ~(SkipsUnresolved(fn) /\ MapGet(company_map, company_id(fn, r)) = 0)
        /\ errors' = Append(errors, ErrorEntry(fn, r, "save failed"))
  /\ faults' = faults + 1
  /\ stats' = [stats EXCEPT !.errors = @ + 1, !.updated = @ + 1]
  /\ idx' = idx + 1
  /\ uncommitted' = AfterRecord(idx, uncommitted)
  /\ paused' = Pauses(idx, paused)
  /\ ev' = "record_raised"
  /\ UNCHANGED skipped
  /\ UNCHANGED <<conf, remote, store, logs, now, pc, entry, cutoff, start_time, log_name,
                 modified_since, all_errors, step, records, company_map, property_map,
                 result, runs, order, issued, made, received, prev, skip, all_records, rest>>

\* One iteration in which the transform, the lookup, save or insert raises.
ProcessRecordRaises ==
  /\ pc = "loop"
  /\ idx < Len(records)
  /\ faults < MaxFaults
  /\ LET fn == CurrentFn
         r == records[idx + 1]
     IN /\ r.obj
        /\ ~(SkipsUnresolved(fn) /\ MapGet(company_map, company_id(fn, r)) = 0)
        /\ errors' = Append(errors, ErrorEntry(fn, r, "save failed"))
  /\ faults' = faults + 1
  /\ stats' = [stats EXCEPT !.errors = @ + 1]
  /\ idx' = idx + 1
  /\ uncommitted' = AfterRecord(idx, uncommitted)
  /\ paused' = Pauses(idx, paused)
  /\ ev' = "record_raised"
  /\ UNCHANGED skipped
  /\ UNCHANGED <<conf, remote, store, logs, now, pc, entry, cutoff, start_time, log_name,
                 modified_since, all_errors, step, records, company_map, property_map,
                 result, runs, order, issued, made, received, prev, skip, all_records, rest>>


\* mutant of Return: the caller drops the returned error entries
Return_DropsErrors ==
  /\ pc = "loop"
  /\ idx = Len(records)
  /\ uncommitted' = 0
  /\ IF step < Len(Pipeline(entry))
     THEN step' = step + 1 /\ pc' = "fetch"
     ELSE step' = step /\ pc' = "finalize"
  /\ ev' = "returned"
  /\ UNCHANGED <<conf, remote, store, logs, now, entry, cutoff, start_time, log_name,
                 modified_since, stats, records, idx, errors, company_map, property_map,
                 result, faults, runs, order, issued, made, received, prev, paused, skipped,
                 skip, all_records, rest, all_errors>>

\* The tail of an entity sync function (frappe.db.commit(); return errors) and
\* the caller's all_errors.extend(...).
Return ==
  /\ pc = "loop"
  /\ idx = Len(records)
  /\ uncommitted' = 0
  /\ all_errors' = all_errors \o errors
  /\ IF step < Len(Pipeline(entry))
     THEN step' = step + 1 /\ pc' = "fetch"
     ELSE step' = step /\ pc' = "finalize"
  /\ ev' = "returned"
  /\ UNCHANGED <<conf, remote, store, logs, now, entry, cutoff, start_time, log_name,
                 modified_since, stats, records, idx, errors, company_map, property_map,
                 result, faults, runs, order, issued, made, received, prev, paused, skipped, skip, all_records, rest>>

\* The final frappe.db.commit() raises: not an AspireAPIError.
CommitFails ==
  /\ pc = "loop"
  /\ idx = Len(records)
  /\ faults < MaxFaults
  /\ faults' = faults + 1
  /\ Propagate("DatabaseError", "commit_raised")
  /\ UNCHANGED <<conf, remote, store, logs, now, entry, cutoff, start_time, log_name,
                 modified_since, stats, all_errors, step, records, idx, errors,
                 company_map, property_map, uncommitted, runs, order, issued, made, received, prev, paused, skipped, skip, all_records, rest>>

\* The end of the try block: duration, status, update_sync_log (which
\* commits); then return.
Finalize ==
  /\ pc = "finalize"
  /\ LET duration == now - start_time
         status == IF stats.errors = 0 THEN "Success" ELSE "Partial"
     IN logs' = [logs EXCEPT ![log_name] = update_sync_log(@, status, stats, all_errors, duration, now)]
  /\ result' = Returned(stats)
  /\ pc' = "idle"
  /\ ev' = "completed"
  /\ now' = now + 1
  /\ uncommitted' = 0
  /\ UNCHANGED <<conf, remote, store, entry, cutoff, start_time, log_name, modified_since,
                 stats, all_errors, step, records, idx, errors, company_map, property_map,
                 faults, runs, order, issued, made, received, prev, paused, skipped, skip, all_records, rest>>

CutoffArgs == {"", "2025-10-01", "yesterday"}

Next ==
  \/ full_sync
  \/ incremental_sync
  \/ \E a \in CutoffArgs : sync_aspire_data(a)
  \/ \E a \in CutoffArgs \ {""} : resync_since(a)
  \/ AspireClient
  \/ Fetch
  \/ FetchMalformed
  \/ FetchFails
  \/ MapFails
  \/ ProcessRecord
  \/ ProcessRecordRaises
  \/ Return
  \/ CommitFails
  \/ Finalize

Spec == Init /\ [][Next]_vars

\* --------------------------------------------- full and incremental runs
\* Scheduled and manual full/incremental runs against collections whose records
\* carry different modification times.
IncrInit ==
  /\ conf = TRUE
  /\ remote = TimedRemote
  /\ Idle

IncrNext ==
  \/ full_sync
  \/ incremental_sync
  \/ AspireClient
  \/ Fetch
  \/ ProcessRecord
  \/ ProcessRecordRaises
  \/ Return
  \/ Finalize

IncrSpec == IncrInit /\ [][IncrNext]_vars

\* ---------------------------------------------------------- long collections
\* Runs over collections longer than one batch; the record that may fail is the
\* one a batch ends with.
BatchInit ==
  /\ conf = TRUE
  /\ remote = BigRemote
  /\ Idle

BatchEndRaises ==
  /\ (idx + 1) % BATCH_SIZE = 0
  /\ ProcessRecordRaises

BatchNext ==
  \/ full_sync
  \/ sync_aspire_data("")
  \/ AspireClient
  \/ Fetch
  \/ ProcessRecord
  \/ BatchEndRaises
  \/ Return
  \/ Finalize

BatchSpec == BatchInit /\ [][BatchNext]_vars

\* ------------------------------------------------------------------ client requests
\* "if self._token and self._token_expires and datetime.now() < self._token_expires"
Cached(c) == c.token # 0 /\ c.token_expires # NoTime /\ c.clock < c.token_expires

\* _get_auth_token when the POST succeeds; tok is data.get("Token") (0: None)
get_auth_token(c, tok) ==
  IF Cached(c) THEN c
  ELSE [c EXCEPT !.token = tok, !.token_expires = c.clock + TokenMinutes, !.obtained = c.clock,
                 !.failed = FALSE]

\* the server's page for $top = page_size, $skip = from over records 1..n
PageOf(n, from) ==
  IF n <= from THEN <<>>
  ELSE [i \in 1..(IF n - from < page_size THEN n - from ELSE page_size) |-> from + i]

\* the data request _make_request sends: its paging parameters and bearer token
\* (age: minutes since that token was obtained)
DataRequest(c) ==
  [skip |-> c.skip, top |-> page_size, token |-> c.token,
   age |-> IF c.obtained = NoTime THEN 0 ELSE c.clock - c.obtained]

\* mutant of Sleeps: the pause is taken after the last page as well
Sleeps_AfterEveryPage(d, data) == d + 1

\* time.sleep(0.1) is reached only when the loop did not break
Sleeps(d, data) == IF Continues(data) THEN d + 1 ELSE d

\* mutant of Unexpected: a response that is not a list drops what was fetched
Unexpected_DropsRecords(c) ==
  [c EXCEPT !.logged = @ + 1, !.call = "returned", !.clean = FALSE, !.all_records = <<>>]

\* the else branch: frappe.log_error(...); break; return all_records
Unexpected(c) == [c EXCEPT !.logged = @ + 1, !.call = "returned", !.clean = FALSE]

\* minutes that may pass before a page is requested
Ticks == {0, 20, 30}

\* sizes of the matching collection
Sizes == {k * page_size + d : k \in 0..MaxPages, d \in {0, 1, 37, page_size - 1}}

\* self._fetch_all_pages(endpoint, params) is called: all_records = [], skip = 0
FetchBegin(n) ==
  /\ cl.call # "paging"
  /\ cl.fetches < MaxFetches
  /\ cl' = [cl EXCEPT !.call = "paging", !.n = n, !.skip = 0, !.all_records = <<>>,
                      !.requests = <<>>, !.delays = 0, !.logged = 0, !.clean = TRUE,
                      !.fetches = @ + 1, !.act = "begin", !.posted = FALSE]
  /\ UNCHANGED <<job, queue, ack, racers, repair, pure>>

\* One iteration of the while loop: the token is cached or the POST returns one,
\* the response is a list.
PageResponse(d) ==
  /\ cl.call = "paging"
  /\ cl.clock + d <= MaxClock
  /\ LET c0 == [cl EXCEPT !.clock = @ + d]
         c1 == get_auth_token(c0, 1)
         data == PageOf(c1.n, c1.skip)
     IN cl' = [c1 EXCEPT !.requests = Append(@, DataRequest(c1)),
                         !.all_records = @ \o data,
                         !.skip = IF Continues(data) THEN @ + page_size ELSE @,
                         !.delays = Sleeps(@, data),
                         !.call = IF Continues(data) THEN "paging" ELSE "returned",
                         !.act = "page",
                         !.posted = ~Cached(c0)]
  /\ UNCHANGED <<job, queue, ack, racers, repair, pure>>

\* One iteration whose response is not a list.
PageMalformed(d) ==
  /\ cl.call = "paging"
  /\ cl.clock + d <= MaxClock
  /\ LET c0 == [cl EXCEPT !.clock = @ + d]
         c1 == get_auth_token(c0, 1)
     IN cl' = [Unexpected(c1) EXCEPT !.requests = Append(@, DataRequest(c1)),
                                     !.act = "malformed",
                                     !.posted = ~Cached(c0)]
  /\ UNCHANGED <<job, queue, ack, racers, repair, pure>>

\* The data request fails (transport failure or non-2xx): _make_request raises
\* AspireAPIError.
PageFails(d) ==
  /\ cl.call = "paging"
  /\ cl.clock + d <= MaxClock
  /\ LET c0 == [cl EXCEPT !.clock = @ + d]
         c1 == get_auth_token(c0, 1)
     IN cl' = [c1 EXCEPT !.requests = Append(@, DataRequest(c1)),
                         !.call = "raised",
                         !.act = "request_failed",
                         !.posted = ~Cached(c0)]
  /\ UNCHANGED <<job, queue, ack, racers, repair, pure>>

\* The authentication POST fails (transport failure or non-2xx):
\* _get_auth_token raises AspireAPIError before self._token and
\* self._token_expires are assigned; no data request is sent.
AuthFails(d) ==
  /\ cl.call = "paging"
  /\ cl.clock + d <= MaxClock
  /\ LET c0 == [cl EXCEPT !.clock = @ + d]
     IN /\ ~Cached(c0)
        /\ cl' = [c0 EXCEPT !.call = "raised", !.act = "auth_failed", !.posted = TRUE,
                            !.failed = TRUE]
  /\ UNCHANGED <<job, queue, ack, racers, repair, pure>>

\* The authentication POST succeeds with a body that has no "Token":
\* data.get("Token") is None, which is cached and returned; _make_request sends
\* the data request with "Bearer None", which the server refuses.
AuthNoToken(d) ==
  /\ cl.call = "paging"
  /\ cl.clock + d <= MaxClock
  /\ LET c0 == [cl EXCEPT !.clock = @ + d]
         c1 == get_auth_token(c0, 0)
     IN /\ ~Cached(c0)
        /\ cl' = [c1 EXCEPT !.requests = Append(@, DataRequest(c1)),
                            !.call = "raised",
                            !.act = "no_token",
                            !.posted = TRUE]
  /\ UNCHANGED <<job, queue, ack, racers, repair, pure>>

\* test_connection(): _get_auth_token() outside any fetch; True when it
\* returns (a cached token, or a 2xx answer to the POST, whose "Token" is tok),
\* no data request is sent.
TestConnection(d, tok) ==
  /\ cl.call # "paging"
  /\ cl.clock + d <= MaxClock
  /\ LET c0 == [cl EXCEPT !.clock = @ + d]
     IN cl' = [get_auth_token(c0, tok) EXCEPT !.act = "test_true", !.posted = ~Cached(c0)]
  /\ UNCHANGED <<job, queue, ack, racers, repair, pure>>

\* test_connection() when the POST fails: AspireAPIError is caught, False is
\* returned, token and expiry stay as they were.
TestConnectionFails(d) ==
  /\ cl.call # "paging"
  /\ cl.clock + d <= MaxClock
  /\ LET c0 == [cl EXCEPT !.clock = @ + d]
     IN /\ ~Cached(c0)
        /\ cl' = [c0 EXCEPT !.act = "test_false", !.posted = TRUE, !.failed = TRUE]
  /\ UNCHANGED <<job, queue, ack, racers, repair, pure>>

ClientInit ==
  /\ conf = TRUE
  /\ remote = CleanRemote
  /\ Idle

ClientNext ==
  \/ \E n \in Sizes : FetchBegin(n)
  \/ \E d \in Ticks : PageResponse(d)
  \/ \E d \in Ticks : PageMalformed(d)
  \/ \E d \in Ticks : PageFails(d)
  \/ \E d \in Ticks : AuthFails(d)
  \/ \E d \in Ticks : AuthNoToken(d)
  \/ \E d \in Ticks, tok \in {0, 1} : TestConnection(d, tok)
  \/ \E d \in Ticks : TestConnectionFails(d)

ClientSpec == ClientInit /\ [][ClientNext]_vars

\* ------------------------------------------------------------------ claims
Terminal == {"Success", "Partial", "Failed"}

\* the current invocation has ended (returned or raised) after creating its log
RunEnded == pc = "idle" /\ made = 1

\* it ended because an exception left the try block
Aborted == ev \in {"failed", "map_raised", "commit_raised", "handler_raised"}

\* C1: the status on the log of a run that has ended is Success when the run
\* completed with zero per-record errors, Partial when it completed with at
\* least one, and Failed when an exception aborted it.
C1_FinalStatus ==
  RunEnded =>
    /\ (ev = "completed" /\ stats.errors = 0 => logs[log_name].status = "Success")
    /\ (ev = "completed" /\ stats.errors > 0 => logs[log_name].status = "Partial")
    /\ (Aborted => logs[log_name].status = "Failed")

\* Log documents are only ever appended, one at a time, in status Running.
LogsAppendOnly ==
  /\ Len(logs') >= Len(logs)
  /\ Len(logs') > Len(logs) =>
       /\ Len(logs') = Len(logs) + 1
       /\ logs'[Len(logs')].status = "Running"
       /\ made' = 1 /\ log_name' = Len(logs')

\* A log's status changes only from Running to a terminal status.
StatusOnlyFinalizes ==
  \A i \in DOMAIN logs :
    logs'[i].status # logs[i].status =>
      logs[i].status = "Running" /\ logs'[i].status \in Terminal

\* The invocation's log exists, alone and Running, and nothing else has happened.
LogBeforeWork ==
  pc = "client" =>
    /\ made = 1
    /\ log_name = Len(logs)
    /\ logs[log_name].status = "Running"
    /\ order = <<>> /\ issued = <<>>
    /\ store = prev.store

\* C2 as stated: every invocation creates exactly one run log, Running, before
\* any client construction, fetch or upsert; a log's status changes only
\* Running -> Success | Partial | Failed, once.
C2_EveryInvocationOneLog ==
  /\ [](runs > 0 => made = 1 /\ Len(logs) = runs)
  /\ []LogBeforeWork
  /\ [][LogsAppendOnly /\ StatusOnlyFinalizes]_vars

\* C2 (amended): every invocation whose cutoff argument is absent or parses
\* creates exactly one run log, Running, before any client construction, fetch
\* or upsert (an invocation whose cutoff string does not parse raises before it
\* creates a log); a log's status changes only Running -> Success | Partial |
\* Failed, once.
C2_OneLogPerParsedInvocation ==
  /\ [](runs > 0 /\ ev # "bad_argument" => made = 1 /\ log_name \in DOMAIN logs)
  /\ [](ev = "bad_argument" => made = 0)
  /\ []LogBeforeWork
  /\ [][LogsAppendOnly /\ StatusOnlyFinalizes]_vars
  /\ [][runs' = runs + 1 /\ ev' # "bad_argument" => Len(logs') = Len(logs) + 1]_vars

C2_Witness ==
  /\ runs = 2
  /\ RunEnded
  /\ Len(logs) = 2
  /\ logs[1].status = "Failed"
  /\ logs[2].status = "Success"

\* C3: once the run has ended, whatever exception ended it, its log has left
\* Running and carries a completion timestamp and a duration.
C3_AlwaysFinalized ==
  RunEnded =>
    /\ logs[log_name].status \in Terminal
    /\ logs[log_name].completed_at # NoTime
    /\ logs[log_name].sync_duration_seconds > 0

\* position of an entity sync in companies -> properties -> contacts ->
\* contracts/opportunities -> work tickets
Rank(fn) ==
  CASE fn \in {"sync_companies", "sync_aspire_companies"}     -> 1
    [] fn = "sync_properties"                                 -> 2
    [] fn \in {"sync_contacts", "sync_aspire_contacts"}       -> 3
    [] fn \in {"sync_opportunities", "sync_aspire_contracts"} -> 4
    [] fn = "sync_work_tickets"                               -> 5

\* C4: the entity syncs a run has started are, in order, companies, properties,
\* contacts, contracts/opportunities, work tickets; while one is in its record
\* loop it is the last one started, and the next starts only after it returned.
C4_DependencyOrder ==
  /\ \A i \in DOMAIN order : Rank(order[i]) = i
  /\ pc = "loop" => Len(order) = step
  /\ pc = "fetch" => Len(order) = (IF skip = 0 THEN step - 1 ELSE step)
  /\ pc = "finalize" => Len(order) = step

C4_Witness ==
  /\ pc = "idle" /\ ev = "completed"
  /\ Len(order) = 5
  /\ Len(store["Work Ticket"]) = 1

\* C5: no two local documents of one doctype carry the same external ID.
C5_UniqueExternalId ==
  \A d \in Doctypes : \A i, j \in DOMAIN store[d] :
    i # j => store[d][i].ext # store[d][j].ext

\* the second company record of one fetched page found the first one's document
C5_Witness ==
  /\ runs = 1
  /\ pc = "loop" /\ CurrentFn = "sync_companies"
  /\ idx = 2 /\ records[1].id = records[2].id
  /\ stats.created = 1 /\ stats.updated = 1
  /\ Len(store["Customer"]) = 1

\* stored field values apart from the last-synced timestamp
SansSynced(st) ==
  [d \in Doctypes |-> [i \in DOMAIN st[d] |-> [st[d][i] EXCEPT !.synced = 0]]]

\* every collection was returned in full
NothingMissed(iss, rec) ==
  \A i \in DOMAIN rec :
    rec[i] = Served(iss[i])

\* the current invocation repeats the previous one, which completed; the remote
\* side did not change in between and both were returned its collections in full
SameSyncTwice ==
  /\ runs >= 2 /\ made = 1
  /\ prev.entry = entry /\ prev.cutoff = cutoff
  /\ prev.ev = "completed"
  /\ prev.remote = remote
  /\ NothingMissed(prev.issued, prev.received)
  /\ NothingMissed(issued, received)

\* C6 as stated: the second of two runs of the same sync creates nothing, counts
\* every record the first created or updated as updated, and leaves stored
\* values identical apart from the last-synced timestamp.
C6_SecondRunCreatesNothing ==
  SameSyncTwice =>
    /\ stats.created = 0
    /\ SansSynced(store) = SansSynced(prev.store)
    /\ (pc = "idle" /\ ev = "completed" =>
          stats.updated = prev.stats.created + prev.stats.updated)

\* a link field is as it was, or was null and is set now
LinkKeptOrFilled(now_, before) == now_ = before \/ before = 0

\* a document the first run left is as it was apart from the last-synced
\* timestamp and from a link that did not resolve in the first run
SameRecord(doc, before) ==
  /\ [doc EXCEPT !.synced = 0, !.company = 0, !.property = 0]
       = [before EXCEPT !.synced = 0, !.company = 0, !.property = 0]
  /\ LinkKeptOrFilled(doc.company, before.company)
  /\ LinkKeptOrFilled(doc.property, before.property)

\* the second run creates a document only for a record the first run left
\* without one, and every document the first run left is still the same record
OnlyMissingCreated ==
  \A dt \in Doctypes :
    /\ Len(store[dt]) >= Len(prev.store[dt])
    /\ \A k \in DOMAIN store[dt] :
         IF k <= Len(prev.store[dt])
         THEN SameRecord(store[dt][k], prev.store[dt][k])
         ELSE GetValue(prev.store[dt], store[dt][k].ext) = 0

\* C6 (amended): the second of two runs of the same sync never creates a
\* document for a record the first run stored, and leaves every stored value
\* as it was apart from the last-synced timestamp and from links the first run
\* could not resolve; when the first run completed with zero errors the second
\* creates nothing and changes no value but the timestamp.  When the second
\* run issues the same fetches and completes, every record the first run
\* created or updated is counted as updated or as an error by the second, and
\* as updated when neither run had an error.
C6_SecondRunAddsOnlyMissing ==
  SameSyncTwice =>
    /\ OnlyMissingCreated
    /\ (prev.stats.errors = 0 =>
          /\ stats.created = 0
          /\ SansSynced(store) = SansSynced(prev.store))
    /\ (pc = "idle" /\ ev = "completed" /\ issued = prev.issued =>
          /\ stats.updated + stats.errors >= prev.stats.created + prev.stats.updated
          /\ (prev.stats.errors = 0 /\ stats.errors = 0 =>
                stats.updated = prev.stats.created + prev.stats.updated))

\* the first run failed to insert one record and completed; the second run of
\* the same sync created that record and updated the others
C6_Witness ==
  /\ SameSyncTwice
  /\ prev.stats.errors = 1 /\ prev.stats.created = 4
  /\ pc = "idle" /\ ev = "completed" /\ stats.errors = 0
  /\ issued = prev.issued
  /\ stats.created = 1
  /\ stats.updated >= prev.stats.created + prev.stats.updated

\* C7: a step in which processing a record raises adds one to errors, appends
\* one entry naming the entity, the record's ID and the message, leaves created
\* and updated alone and moves on to the next record.
C7_RecordErrorIsContained ==
  [][pc = "loop" /\ ev' \in {"record_raised", "handler_raised"} =>
       /\ stats'.errors = stats.errors + 1
       /\ stats'.created = stats.created /\ stats'.updated = stats.updated
       /\ Len(errors') = Len(errors) + 1
       /\ errors'[Len(errors')].entity = entity_of(CurrentFn)
       /\ errors'[Len(errors')].id = records[idx + 1].id
       /\ pc' = "loop" /\ idx' = idx + 1]_vars

\* the next record is a contract or opportunity whose company id has no entry
\* in the company map
UnresolvedNext ==
  /\ pc = "loop" /\ idx < Len(records)
  /\ CurrentFn \in {"sync_opportunities", "sync_aspire_contracts"}
  /\ records[idx + 1].obj
  /\ (IF records[idx + 1].bid # 0 THEN records[idx + 1].bid ELSE records[idx + 1].cid)
       \notin DOMAIN company_map

\* C8: processing such a record changes no document, no counter and no error
\* list; the loop moves on.
C8_UnresolvedCompanyIsPureSkip ==
  [][UnresolvedNext =>
       /\ store' = store
       /\ stats' = stats
       /\ errors' = errors /\ all_errors' = all_errors
       /\ logs' = logs
       /\ pc' = "loop" /\ idx' = idx + 1]_vars

C8_Witness ==
  /\ ev = "skipped"
  /\ CurrentFn = "sync_aspire_contracts"
  /\ idx = 2
  /\ Len(store["Aspire Contract"]) = 1
  /\ stats.errors = 0

\* C9: when a fetch raises an API error the run ends there: its log is Failed
\* with the error as the last entry of its details, the entry point returns the
\* statistics accumulated so far (with the API error counted), and the failing
\* entity sync is the last one the run started.
C9_ApiErrorFailsRun ==
  /\ [][pc = "fetch" /\ ev' = "failed" =>
          /\ pc' = "idle"
          /\ logs'[log_name].status = "Failed"
          /\ logs'[log_name].error_details # <<>>
          /\ logs'[log_name].error_details[Len(logs'[log_name].error_details)].entity = "API"
          /\ result' = [kind |-> "returned", value |-> [stats EXCEPT !.errors = @ + 1]]
          /\ store' = store]_vars
  /\ [](pc = "idle" /\ ev = "failed" /\ order # <<>> =>
          /\ order = SubSeq(Pipeline(entry), 1, Len(order))
          /\ Len(order) = step)
  /\ [][pc = "idle" /\ ev = "failed" => order' = <<>> /\ runs' = runs + 1]_vars

C9_Witness ==
  /\ pc = "idle" /\ ev = "failed"
  /\ Len(order) = 3
  /\ stats.created = 2
  /\ result.kind = "returned" /\ result.value.created = 2

\* the request full_sync's i-th entity sync sends
FullSyncRequest(i) ==
  [op |-> fetch_of(LegacyPipeline[i]), modified_since |-> NoTime, cutoff_date |-> NoTime,
   schedule_cutoff |-> IF fetch_of(LegacyPipeline[i]) = "fetch_work_tickets"
                       THEN ScheduleCutoff(NoTime, now) ELSE NoTime]

\* C10: as incremental_sync enters its try block, modified_since is the latest
\* completed_at among the logs in status Success, whatever their kind, and
\* absent when there is none; every request carries it, and when it is absent
\* the requests are those of full_sync.
C10_IncrementalBound ==
  /\ (pc = "client" /\ entry = "incremental_sync" =>
        LET ok == {i \in DOMAIN logs : logs[i].status = "Success"} IN
        IF ok = {} THEN modified_since = NoTime
        ELSE /\ \E i \in ok : modified_since = logs[i].completed_at
             /\ \A i \in ok : logs[i].completed_at <= modified_since)
  /\ (entry = "incremental_sync" =>
        \A i \in DOMAIN issued : issued[i].modified_since = modified_since)
  /\ (entry = "full_sync" \/ (entry = "incremental_sync" /\ modified_since = NoTime) =>
        \A i \in DOMAIN issued : issued[i] = FullSyncRequest(i))

\* an incremental run bounded by a Manual run's completion
C10_Witness ==
  /\ entry = "incremental_sync" /\ pc = "loop"
  /\ modified_since # NoTime
  /\ \E i \in DOMAIN logs :
       /\ logs[i].sync_type = "Manual" /\ logs[i].status = "Success"
       /\ logs[i].completed_at = modified_since

\* the Success logs that existed when the current invocation created its own
PriorSuccess == {i \in 1..(log_name - 1) : logs[i].status = "Success"}

\* the completion time of the most recent of them
LastSuccessTime ==
  logs[CHOOSE i \in PriorSuccess :
         \A j \in PriorSuccess : logs[j].completed_at <= logs[i].completed_at].completed_at

RECURSIVE TotalLen(_)
TotalLen(ss) == IF ss = <<>> THEN 0 ELSE Len(Head(ss)) + TotalLen(Tail(ss))

\* the remote records a document of doctype d is synced from in this invocation
SourceRecords(d) ==
  {remote[fetch_of(fn)][j] : fn \in {f \in {Pipeline(entry)[k] : k \in DOMAIN Pipeline(entry)} :
                                        doctype_of(f) = d},
                             j \in 1..3}

\* C11: in an incremental run that follows a Success run completed at T, every
\* record received was modified strictly after T, pulled counts exactly the
\* records received, and every document the run wrote comes from such a record.
C11_OnlyModifiedAfter ==
  entry = "incremental_sync" /\ made = 1 /\ PriorSuccess # {} =>
    /\ \A k \in DOMAIN received : \A j \in DOMAIN received[k] :
          received[k][j].mod > LastSuccessTime
    /\ stats.pulled = TotalLen(received)
    /\ \A d \in Doctypes : \A i \in DOMAIN store[d] :
          store[d][i].synced > start_time =>
            \E r \in SourceRecords(d) : r.id = store[d][i].ext /\ r.mod > LastSuccessTime

C11_Witness ==
  /\ entry = "incremental_sync" /\ pc = "idle" /\ ev = "completed"
  /\ PriorSuccess # {} /\ LastSuccessTime = 2
  /\ stats.pulled = 5 /\ stats.updated = 5
  /\ \A k \in DOMAIN received : Len(received[k]) = 1 /\ received[k][1].mod = 3

\* an invocation that got as far as constructing the client has ended on a site
\* whose credentials are missing
EndedUnconfigured == ~conf /\ runs > 0 /\ pc = "idle" /\ ev # "bad_argument"

\* no data request was sent, no entity sync started, nothing was written
NoNetworkNoWrites ==
  /\ issued = <<>> /\ order = <<>> /\ received = <<>>
  /\ cl = NewClient
  /\ store = prev.store

\* C17 as stated: without credentials the run sends nothing and the
\* configuration error reaches the entry point's caller.
C17_ConfigErrorSurfaces ==
  /\ (~conf => issued = <<>> /\ cl = NewClient)
  /\ (EndedUnconfigured => NoNetworkNoWrites /\ result = Raised("AspireAPIError"))

\* C17 (amended): without credentials the run sends nothing; the entry point
\* catches the configuration error, finalizes its log as Failed with the error as
\* the only entry of its details, and returns statistics with errors = 1.
C17_ConfigErrorFailsRun ==
  /\ (~conf => issued = <<>> /\ cl = NewClient)
  /\ (EndedUnconfigured =>
        /\ NoNetworkNoWrites
        /\ logs[log_name].status = "Failed"
        /\ logs[log_name].error_details =
             <<[entity |-> "API", error |-> "Aspire API credentials not configured"]>>
        /\ logs[log_name].errors = 1
        /\ result = Returned([ZeroStats EXCEPT !.errors = 1]))

C17_Witness ==
  /\ EndedUnconfigured
  /\ runs = 2 /\ Len(logs) = 2
  /\ entry = "sync_aspire_data"
  /\ logs[2].status = "Failed" /\ logs[2].completed_at # NoTime

\* the loop has just dealt with its BATCH_SIZE-th, 2*BATCH_SIZE-th, ... record
BatchEnds == pc = "loop" /\ idx' = idx + 1 /\ idx' % BATCH_SIZE = 0

\* C18: when an entity sync has dealt with a BATCH_SIZE-th record it commits and
\* pauses, it commits once more before it returns, and never more than
\* BATCH_SIZE processed records are uncommitted.
C18_BatchCommits ==
  /\ [][BatchEnds => uncommitted' = 0 /\ paused' = paused + 1]_vars
  /\ [][pc = "loop" /\ ev' = "returned" => uncommitted' = 0]_vars
  /\ [](uncommitted <= BATCH_SIZE)

\* the same for the entity syncs that skip no record
BatchCommitsUnlessSkipping ==
  /\ [][BatchEnds /\ ~SkipsUnresolved(CurrentFn) => uncommitted' = 0 /\ paused' = paused + 1]_vars
  /\ [][pc = "loop" /\ ev' = "returned" => uncommitted' = 0]_vars
  /\ [](pc = "loop" /\ ~SkipsUnresolved(CurrentFn) => uncommitted <= BATCH_SIZE)

\* the doctype the companies step of the current pipeline writes
CompanyDoctype == doctype_of(Pipeline(entry)[1])

\* a document of doctype d with external id k was created by this invocation
CreatedThisRun(d, k) ==
  /\ k # 0
  /\ \E i \in DOMAIN store[d] : store[d][i].ext = k /\ i > Len(prev.store[d])

\* the maps in use were built during this entity sync from the store as it is
MapsAreCurrent ==
  pc = "loop" =>
    /\ company_source(CurrentFn) # "" => company_map = BuildMap(store[company_source(CurrentFn)])
    /\ property_source(CurrentFn) # "" => property_map = BuildMap(store[property_source(CurrentFn)])

\* the document the step has just inserted
Inserted == store'[doctype_of(CurrentFn)][Len(store'[doctype_of(CurrentFn)])]

\* C19: the maps an entity sync resolves through reflect the current store, and
\* a record whose company (property) was created earlier in the same run by the
\* pipeline's companies (properties) step is stored with that link set.
C19_LinksResolved ==
  /\ []MapsAreCurrent
  /\ [][pc = "loop" /\ ev' = "created" =>
          LET r == records[idx + 1] IN
          /\ (company_source(CurrentFn) # ""
               /\ CreatedThisRun(CompanyDoctype, company_id(CurrentFn, r))
                 => Inserted.company # 0)
          /\ (property_source(CurrentFn) # "" /\ CreatedThisRun("Service Property", r.pid)
                 => Inserted.property # 0)]_vars

\* the same, with the company looked for in the doctype the entity sync reads
\* its company map from
LinksResolvedFromMapSource ==
  /\ []MapsAreCurrent
  /\ [][pc = "loop" /\ ev' = "created" =>
          LET r == records[idx + 1] IN
          /\ (company_source(CurrentFn) # ""
               /\ CreatedThisRun(company_source(CurrentFn), company_id(CurrentFn, r))
                 => Inserted.company # 0)
          /\ (property_source(CurrentFn) # "" /\ CreatedThisRun("Service Property", r.pid)
                 => Inserted.property # 0)]_vars

\* the stored document with external id k
Stored(docs, k) == docs[CHOOSE i \in DOMAIN docs : docs[i].name = GetValue(docs, k)]

\* C20: after an update, every field the transform produced has the
\* transformed value in the stored document (transform_contact produces the
\* customer link only when the company resolved; the others always produce it).
C20_UpdateMerges ==
  [][pc = "loop" /\ ev' = "updated" =>
       LET fn == CurrentFn
           r == records[idx + 1]
           data == Transformed(fn, r, MapGet(company_map, company_id(fn, r)),
                               MapGet(property_map, r.pid), now)
           doc == Stored(store'[doctype_of(fn)], r.id)
       IN /\ doc.ext = data.ext
          /\ doc.val = data.val
          /\ doc.synced = data.synced
          /\ doc.property = data.property
          /\ (fn = "sync_contacts" /\ data.company = 0) \/ doc.company = data.company]_vars

\* the same for every entity sync but sync_contacts
UpdateMergesExceptContacts ==
  [][pc = "loop" /\ ev' = "updated" /\ CurrentFn # "sync_contacts" =>
       LET fn == CurrentFn
           r == records[idx + 1]
           data == Transformed(fn, r, MapGet(company_map, company_id(fn, r)),
                               MapGet(property_map, r.pid), now)
       IN Stored(store'[doctype_of(fn)], r.id) = Named(data, GetValue(store[doctype_of(fn)], r.id))]_vars

\* the first k records of the remote collection, in remote order
FirstRecords(k) == [i \in 1..k |-> i]

\* C12: a _fetch_all_pages call in which every response was a list returns the
\* n matching records, each once and in remote order, for every n (0 and the
\* multiples of the page size included).
C12_ReturnsWholeCollection ==
  cl.call = "returned" /\ cl.clean => cl.all_records = FirstRecords(cl.n)

C12_Witness ==
  /\ cl.call = "returned" /\ cl.clean
  /\ cl.n = 2 * page_size
  /\ Len(cl.all_records) = 2 * page_size
  /\ cl.all_records[2 * page_size] = 2 * page_size

\* C13: the i-th request asks for page_size records from $skip = (i-1) *
\* page_size; every page before the last one requested was full and, when the
\* call returned normally, the last one was empty or short, so that n records
\* take n \div page_size + 1 requests and n \div page_size pauses.
C13_PagesAndDelays ==
  /\ \A i \in DOMAIN cl.requests :
       /\ cl.requests[i].skip = (i - 1) * page_size
       /\ cl.requests[i].top = page_size
       /\ i < Len(cl.requests) => Len(PageOf(cl.n, cl.requests[i].skip)) = page_size
  /\ cl.call = "returned" /\ cl.clean =>
       /\ Len(cl.requests) = (cl.n \div page_size) + 1
       /\ cl.delays = cl.n \div page_size
       /\ Len(PageOf(cl.n, cl.requests[Len(cl.requests)].skip)) < page_size

C13_Witness ==
  /\ cl.call = "returned" /\ cl.clean
  /\ cl.n = 2 * page_size + 37
  /\ Len(cl.requests) = 3
  /\ Len(cl.all_records) = 237
  /\ cl.delays = 2

\* C14: a response that is not a list is logged once and ends the call without
\* an error: it returns exactly the records of the pages before it, and the
\* malformed page's request is the last one.
C14_MalformedEndsPagination ==
  /\ [][cl.call = "paging" /\ cl'.act = "malformed" =>
          /\ cl'.call = "returned"
          /\ cl'.all_records = cl.all_records
          /\ cl'.logged = cl.logged + 1
          /\ Len(cl'.requests) = Len(cl.requests) + 1]_vars
  /\ [](cl.call = "returned" /\ ~cl.clean =>
          /\ cl.logged = 1
          /\ cl.all_records = FirstRecords((Len(cl.requests) - 1) * page_size))
  /\ [][cl.call = "returned" /\ cl'.call = "returned" => cl'.requests = cl.requests]_vars

C14_Witness ==
  /\ cl.call = "returned" /\ ~cl.clean
  /\ cl.n = 2 * page_size + 37
  /\ Len(cl.requests) = 2
  /\ Len(cl.all_records) = page_size

\* the authentication POST is issued only when no token is cached or the clock
\* has reached the cached expiry
PostOnlyWhenStale ==
  cl'.posted /\ cl'.act # "begin" /\ cl' # cl =>
    \/ cl.token = 0
    \/ cl.token_expires = NoTime
    \/ cl'.clock >= cl.token_expires

\* every data request carried a value obtained less than TokenMinutes before
RequestsFresh == \A i \in DOMAIN cl.requests : cl.requests[i].age < TokenMinutes

\* every data request carried a token
RequestsCarryToken == \A i \in DOMAIN cl.requests : cl.requests[i].token # 0

\* C15: the token is cached until TokenMinutes after it was obtained: the POST
\* is issued only when no token is cached or the expiry is reached, and every
\* data request carries a token obtained less than TokenMinutes before it.
C15_TokenFresh ==
  /\ [][PostOnlyWhenStale]_vars
  /\ [](RequestsFresh /\ RequestsCarryToken)

\* the caching part of C15 alone
TokenCacheTiming ==
  /\ [][PostOnlyWhenStale]_vars
  /\ []RequestsFresh

\* C16: a failed data request, a failed authentication and an authentication
\* response without a token each end the client operation with AspireAPIError,
\* and the latter two send no data request.
C16_FailuresRaise ==
  [][cl.call = "paging" /\ cl'.act \in {"request_failed", "auth_failed", "no_token"} =>
       /\ cl'.call = "raised"
       /\ (cl'.act \in {"auth_failed", "no_token"} => cl'.requests = cl.requests)]_vars


\* ------------------------------------------------------- run statistics
\* records the counters account for: created, updated, failed or skipped
Counted == stats.created + stats.updated + stats.errors + skipped

\* records of the collection in hand that the loop has not reached yet
Ahead == Len(records) - idx

\* inside the record loop every record the loop has passed is counted once
EachRecordCountedOnce == pc = "loop" => Counted + Ahead = stats.pulled

\* a run that reaches its finalization accounts for every pulled record
CompleteAtFinalization == pc = "finalize" => stats.pulled = Counted

\* the one count that is not a record: the API error of a Failed run
ApiErrorCount == IF ev = "failed" THEN 1 ELSE 0

\* C28 (as amended): pulled = created + updated + errors + skipped when a run
\* reaches its finalization, every record the loop has passed is counted in
\* exactly one of created, updated, errors and skipped, and created + updated
\* + errors exceeds pulled by at most the one count the API-error handler adds.
C28_StatsArithmetic ==
  /\ CompleteAtFinalization
  /\ EachRecordCountedOnce
  /\ Counted <= stats.pulled + ApiErrorCount

\* a run finalized as Partial whose counters hold a created, a failed and a
\* skipped record
C28_Witness ==
  /\ RunEnded
  /\ logs[log_name].status \in {"Success", "Partial"}
  /\ skipped > 0
  /\ stats.created > 0
  /\ stats.pulled = Counted

\* C28 as stated: at every point of every run created + updated + errors is at
\* most pulled.
C28_NeverExceedsPulled == stats.created + stats.updated + stats.errors <= stats.pulled

\* C29: on every finalized run log the error list has as many entries as the
\* errors counter: one per failed record, and for a Failed run one more, the
\* API error, so that a Failed run reports at least one error.
C29_ErrorListMatchesCounter ==
  \A k \in DOMAIN logs :
    logs[k].status \in Terminal =>
      /\ Len(logs[k].error_details) = logs[k].errors
      /\ Cardinality({i \in DOMAIN logs[k].error_details :
                        logs[k].error_details[i].entity = "API"})
           = IF logs[k].status = "Failed" THEN 1 ELSE 0
      /\ (logs[k].status = "Failed" => logs[k].errors >= 1)
      /\ (logs[k].status = "Success" => logs[k].errors = 0)

\* a finalized Failed log whose one error entry is the API error, after a run
\* that ended Success with no entry
C29_Witness ==
  /\ Len(logs) = 2
  /\ logs[1].status = "Success" /\ logs[1].error_details = <<>>
  /\ logs[2].status = "Failed" /\ logs[2].errors = 1
  /\ logs[2].error_details[1].entity = "API"

\* the requests of the current run that came back with fewer records than
\* matched the filter
Shortfalls ==
  {k \in DOMAIN received :
     received[k] # Served(issued[k])}

\* C30: a run recorded as Success received, for every entity kind, every remote
\* record that matched the filter of its request.
C30_SuccessIsComplete ==
  RunEnded /\ logs[log_name].status = "Success" => Shortfalls = {}


\* ============================================================ transform.py
\* The pure functions of transform.py.  A text is the sequence of its
\* characters.  A call is held in the variable pure: the function, its
\* argument, and after the call its result.

\* Python's None as a result, and a returned value
None == [null |-> TRUE, raised |-> "", value |-> <<>>]

Value(v) == [null |-> FALSE, raised |-> "", value |-> v]

\* an exception that leaves the function
Raises(exc) == [null |-> FALSE, raised |-> exc, value |-> <<>>]

Digits == {"0", "1", "2", "3", "4", "5", "6", "7", "8", "9"}

Letters == {"a", "c", "e", "t", "x", "E", "T", "X"}

\* \s
IsSpace(c) == c = " "

\* \d
IsDigit(c) == c \in Digits

\* [a-zA-Z]
IsLetter(c) == c \in Letters

\* [\d+\-() ]
IsPhoneChar(c) == IsDigit(c) \/ c \in {"+", "-", "(", ")", " "}

\* the first position from p on that holds no whitespace (Len(s) + 1: none)
RECURSIVE SkipSpace(_, _)
SkipSpace(s, p) == IF p <= Len(s) /\ IsSpace(s[p]) THEN SkipSpace(s, p + 1) ELSE p

\* r'\s*[xX]|ext|EXT|\s+[a-zA-Z]' matches at position p of s
SeparatorAt(s, p) ==
  LET q == SkipSpace(s, p)
  IN \/ q <= Len(s) /\ s[q] \in {"x", "X"}
     \/ p + 2 <= Len(s) /\ SubSeq(s, p, p + 2) \in {<<"e", "x", "t">>, <<"E", "X", "T">>}
     \/ q > p /\ q <= Len(s) /\ IsLetter(s[q])

\* re.split(...)[0]: the text before the leftmost match, the whole text if none
SplitHead(s) ==
  LET at == {p \in 1..Len(s) : SeparatorAt(s, p)}
  IN IF at = {} THEN s
     ELSE SubSeq(s, 1, (CHOOSE p \in at : \A o \in at : p <= o) - 1)

\* str.strip()
RECURSIVE Strip(_)
Strip(s) ==
  IF s = <<>> THEN s
  ELSE IF IsSpace(s[1]) THEN Strip(Tail(s))
  ELSE IF IsSpace(s[Len(s)]) THEN Strip(SubSeq(s, 1, Len(s) - 1))
  ELSE s

clean_phone(phone_str) ==
  IF phone_str = <<>> THEN None
  ELSE LET phone == Strip(SplitHead(phone_str))
           cleaned == SelectSeq(phone, IsPhoneChar)
           digits_only == SelectSeq(cleaned, IsDigit)
       IN IF Len(digits_only) >= 7 THEN Value(Strip(cleaned)) ELSE None


\* the characters an argument of clean_phone is made of after its leading digits
PhoneAlphabet == {"1", " ", "-", "a", "e", "t", "x"}

MaxSuffix == 3

RECURSIVE Texts(_, _)
Texts(alphabet, n) ==
  IF n = 0 THEN {<<>>}
  ELSE LET shorter == Texts(alphabet, n - 1)
       IN shorter \cup {Append(s, c) : s \in {t \in shorter : Len(t) = n - 1}, c \in alphabet}

\* six or seven digits followed by up to MaxSuffix further characters, and ""
PhoneInputs ==
  {<<>>} \cup
  {head \o tail : head \in {<<"5", "5", "5", "5", "5", "5">>,
                            <<"5", "5", "5", "5", "5", "5", "5">>},
                  tail \in Texts(PhoneAlphabet, MaxSuffix)}

Call(fn, arg) == [fn |-> fn, phase |-> "called", arg |-> arg]

Result(call, out) == [fn |-> call.fn, phase |-> "returned", arg |-> call.arg, out |-> out]

\* clean_phone(aspire_contact.get("MobilePhone"))
CleanPhone ==
  /\ pure.phase = "called"
  /\ pure.fn = "clean_phone"
  /\ pure' = Result(pure, clean_phone(pure.arg))
  /\ UNCHANGED <<job, cl, queue, ack, racers, repair>>


\* ------------------------------------------------ parse_date, parse_datetime
\* A field of an API record is a JSON value: null, a string, a number, a
\* boolean, an array or an object.  A string is held as what it spells: a
\* calendar date, optionally a clock time with or without a fraction, and a
\* zone suffix; shape "junk" is a string that spells none of these.
NoClock == <<-1, -1, -1>>

NoText == [shape |-> "", ymd |-> <<0, 0, 0>>, hms |-> NoClock, frac |-> FALSE, zone |-> ""]

Json(kind, truthy, text) == [kind |-> kind, truthy |-> truthy, text |-> text]

IsoText(ymd, hms, frac, zone) ==
  [shape |-> "iso", ymd |-> ymd, hms |-> hms, frac |-> frac, zone |-> zone]

\* "if not date_str"
Falsy(v) == ~v.truthy

\* date_str.replace("Z", "+00:00"): only a string has the method
Replace(v) ==
  IF v.kind = "str"
  THEN Value([v.text EXCEPT !.zone = IF @ = "Z" THEN "+00:00" ELSE @])
  ELSE Raises("AttributeError")

IsLeap(y) == y % 4 = 0 /\ (y % 100 # 0 \/ y % 400 = 0)

DaysIn(y, m) ==
  IF m = 2 THEN (IF IsLeap(y) THEN 29 ELSE 28)
  ELSE IF m \in {4, 6, 9, 11} THEN 30 ELSE 31

\* the clock time a zone suffix spells when it is read as a time: "+05:00"
\* directly after the date is a separator character and "05:00"
ZoneAsClock(zone) ==
  CASE zone = "+05:00" -> <<5, 0, 0>>
    [] OTHER           -> <<0, 0, 0>>

\* datetime.fromisoformat.  A text with no clock time is the date, or the date,
\* one separator character and a time: a zone suffix that follows the date
\* directly is read as that, its sign as the separator and its digits as the
\* clock time.  In the value, zone is the suffix the text carried.
fromisoformat(text) ==
  IF /\ text.shape = "iso"
     /\ text.ymd[2] \in 1..12
     /\ text.ymd[3] \in 1..DaysIn(text.ymd[1], text.ymd[2])
     /\ \/ text.hms = NoClock /\ ~text.frac
        \/ text.hms[1] \in 0..23 /\ text.hms[2] \in 0..59 /\ text.hms[3] \in 0..59
     /\ text.zone \in {"", "+00:00", "+05:00"}
  THEN Value([ymd |-> text.ymd,
              hms |-> IF text.hms = NoClock THEN ZoneAsClock(text.zone) ELSE text.hms,
              frac |-> text.frac, zone |-> text.zone])
  ELSE Raises("ValueError")

\* mutant of Caught: AttributeError is not handled
Caught_ValueErrorOnly == {"ValueError"}

\* "except (ValueError, AttributeError): return None"
Caught == {"ValueError", "AttributeError"}

\* try: datetime.fromisoformat(date_str.replace("Z", "+00:00"))
Parsed(v) ==
  LET replaced == Replace(v)
      dt == IF replaced.raised # "" THEN replaced ELSE fromisoformat(replaced.value)
  IN IF dt.raised \in Caught THEN None ELSE dt

parse_date(date_str) ==
  IF Falsy(date_str) THEN None
  ELSE LET dt == Parsed(date_str)
       IN IF dt.null \/ dt.raised # "" THEN dt
          ELSE \* .date()
               Value([ymd |-> dt.value.ymd])

parse_datetime(date_str) ==
  IF Falsy(date_str) THEN None
  ELSE LET dt == Parsed(date_str)
       IN IF dt.null \/ dt.raised # "" THEN dt
          ELSE \* dt.replace(tzinfo=None, microsecond=0)
               Value([ymd |-> dt.value.ymd, hms |-> dt.value.hms])

\* the strings tried: dates in and out of the calendar, alone or with a clock
\* time, with and without fraction and zone; the empty string; a malformed one
DateTexts ==
  {IsoText(<<y, m, d>>, NoClock, FALSE, zone) :
     y \in {2023, 2024}, m \in {0, 1, 2, 12, 13}, d \in {0, 1, 29, 30, 31, 32},
     zone \in {"", "Z", "+05:00"}}
  \cup
  {IsoText(<<y, m, d>>, hms, frac, zone) :
     y \in {2023, 2024}, m \in {1, 2, 13}, d \in {1, 29, 32},
     hms \in {<<0, 0, 0>>, <<10, 30, 15>>, <<24, 0, 0>>},
     frac \in BOOLEAN, zone \in {"", "Z", "+05:00"}}
  \cup {[NoText EXCEPT !.shape = "junk"]}

\* every kind of JSON value, empty and not
DateInputs ==
  {Json("str", TRUE, t) : t \in DateTexts}
  \cup {Json("str", FALSE, NoText), Json("null", FALSE, NoText)}
  \cup {Json(k, b, NoText) : k \in {"int", "float", "bool", "list", "dict"}, b \in BOOLEAN}

\* parse_date(aspire_opportunity.get("RenewalDate"))
ParseDate ==
  /\ pure.phase = "called"
  /\ pure.fn = "parse_date"
  /\ pure' = Result(pure, parse_date(pure.arg))
  /\ UNCHANGED <<job, cl, queue, ack, racers, repair>>

\* parse_datetime(aspire_opportunity.get("ModifiedDate"))
ParseDatetime ==
  /\ pure.phase = "called"
  /\ pure.fn = "parse_datetime"
  /\ pure' = Result(pure, parse_datetime(pure.arg))
  /\ UNCHANGED <<job, cl, queue, ack, racers, repair>>


\* ------------------------------------------------------------ status mapping
\* A record's status field: the key may be missing, its value null or a string.
Field(present, kind, text) == [present |-> present, kind |-> kind, text |-> text]

Missing == Field(FALSE, "null", <<>>)

Null == Field(TRUE, "null", <<>>)

Str(text) == Field(TRUE, "str", text)

\* record.get(key, default)
Get(field, default) == IF field.present THEN field ELSE default

\* sub in text, for two strings
Contains(text, sub) ==
  \E i \in 0..(Len(text) - Len(sub)) : SubSeq(text, i + 1, i + Len(sub)) = sub

Won == <<"W", "o", "n">>

Lost == <<"L", "o", "s", "t">>

\* "Won" in status_name: the operator needs a container on its right
In(sub, field) ==
  IF field.kind = "str" THEN Value(Contains(field.text, sub)) ELSE Raises("TypeError")

\* if "Won" in status_name: won  elif "Lost" in status_name: "Lost"  else: "Open"
BySubstring(status_name, won) ==
  LET w == In(Won, status_name)
      l == In(Lost, status_name)
  IN IF w.raised # "" THEN w
     ELSE IF w.value THEN Value(won)
     ELSE IF l.raised # "" THEN l
     ELSE IF l.value THEN Value("Lost")
     ELSE Value("Open")

\* transform_opportunity(...)["status"]
opportunity_status(OpportunityStatusName) ==
  BySubstring(Get(OpportunityStatusName, Str(<<>>)), "Converted")

\* transform_to_aspire_contract(...)["contract_status"]
contract_status(OpportunityStatusName) ==
  BySubstring(Get(OpportunityStatusName, Str(<<>>)), "Won")

Customer == <<"C", "u", "s", "t", "o", "m", "e", "r">>

Prospect == <<"P", "r", "o", "s", "p", "e", "c", "t">>

Scheduled == <<"S", "c", "h", "e", "d", "u", "l", "e", "d">>

InProgress == <<"I", "n", " ", "P", "r", "o", "g", "r", "e", "s", "s">>

Complete == <<"C", "o", "m", "p", "l", "e", "t", "e">>

Cancelled == <<"C", "a", "n", "c", "e", "l", "l", "e", "d">>

\* status_map.get(record.get(key), fallback): a missing key and null look up None
Lookup(status_map, field, fallback) ==
  IF field.kind = "str" /\ \E e \in status_map : e[1] = field.text
  THEN Value((CHOOSE e \in status_map : e[1] = field.text)[2])
  ELSE Value(fallback)

\* transform_property_to_service_property(...)["property_status_name"]
property_status(PropertyStatusName) ==
  Lookup({<<Customer, "Customer">>, <<Prospect, "Prospect">>},
         Get(PropertyStatusName, Null), "Inactive")

\* transform_work_ticket(...)["status"]
work_ticket_status(WorkTicketStatusName) ==
  Lookup({<<Scheduled, "Scheduled">>, <<InProgress, "In Progress">>,
          <<Complete, "Complete">>, <<Cancelled, "Cancelled">>},
         Get(WorkTicketStatusName, Null), "Scheduled")

\* the pieces the tried status names are put together from
StatusWords == {Won, Lost, <<"w", "o", "n">>, <<"W", "o">>, <<"n">>, <<"7", ".", " ">>}

MaxWords == 2

RECURSIVE Phrases(_, _)
Phrases(words, n) ==
  IF n = 0 THEN {<<>>}
  ELSE LET shorter == Phrases(words, n - 1)
       IN shorter \cup {p \o w : p \in shorter, w \in words}

\* opportunity and contract status fields
SubstringInputs == {Missing, Null} \cup {Str(t) : t \in Phrases(StatusWords, MaxWords)}

\* property and work-ticket status fields
TableInputs ==
  {Missing, Null} \cup
  {Str(t) : t \in {Customer, Prospect, Scheduled, InProgress, Complete, Cancelled,
                   <<>>, <<"c", "u", "s", "t", "o", "m", "e", "r">>,
                   Customer \o <<" ">>, Complete \o <<"d">>, <<"O", "p", "e", "n">>}}

StatusFns == {"opportunity_status", "contract_status", "property_status", "work_ticket_status"}

\* the status a transform computes for a record
MapStatus ==
  /\ pure.phase = "called"
  /\ pure.fn \in StatusFns
  /\ pure' = Result(pure,
       CASE pure.fn = "opportunity_status" -> opportunity_status(pure.arg)
         [] pure.fn = "contract_status" -> contract_status(pure.arg)
         [] pure.fn = "property_status" -> property_status(pure.arg)
         [] pure.fn = "work_ticket_status" -> work_ticket_status(pure.arg))
  /\ UNCHANGED <<job, cl, queue, ack, racers, repair>>


\* ------------------------------------------------------------ fetch filters
\* A datetime is a day and a time of day.  A filter is the list of predicates
\* that " and ".join puts together.
At(day, clock) == [day |-> day, clock |-> clock]

\* None where a datetime is expected
NoMoment == At(NoTime, NoTime)

\* "if cutoff_date:", "if modified_since:"
Given(moment) == moment # NoMoment

Pred(field, op, value) == [field |-> field, op |-> op, value |-> value]

\* f"{field} ge {cutoff_date.strftime('%Y-%m-%d')}T00:00:00Z"
Since(field, cutoff_date) == Pred(field, "ge", At(cutoff_date.day, 0))

\* f"{field} gt {modified_since.isoformat()}Z"
After(field, since) == Pred(field, "gt", since)

\* mutant of Bounds: modified_since is ignored when a cutoff date is given
Bounds_CutoffFirst(field, since, cutoff_date) ==
  IF Given(cutoff_date) THEN <<Since(field, cutoff_date)>>
  ELSE IF Given(since) THEN <<After(field, since)>>
  ELSE <<>>

\* if cutoff_date: filters.append(...)   if modified_since: filters.append(...)
Bounds(field, since, cutoff_date) ==
  (IF Given(cutoff_date) THEN <<Since(field, cutoff_date)>> ELSE <<>>)
  \o (IF Given(since) THEN <<After(field, since)>> ELSE <<>>)

\* params = {"$filter": " and ".join(filters)}
Params(filters) == [has_filter |-> TRUE, filter |-> filters]

\* params = {}
NoParams == [has_filter |-> FALSE, filter |-> <<>>]

companies_params(since, cutoff_date) ==
  LET filters == Bounds("ModifiedDateTime", since, cutoff_date)
  IN IF filters # <<>> THEN Params(filters) ELSE NoParams

contacts_params(since, cutoff_date) ==
  Params(<<Pred("Email", "ne", "null"), Pred("Active", "eq", "true")>>
         \o Bounds("ModifiedDate", since, cutoff_date))

properties_params(since, cutoff_date) ==
  Params(<<Pred("Active", "eq", "true")>> \o Bounds("ModifiedDate", since, cutoff_date))

opportunities_params(since, cutoff_date) ==
  Params(<<Pred("OpportunityType", "eq", "Contract"),
           Pred("OpportunityStatusName", "eq", "7. Won")>>
         \o Bounds("ModifiedDate", since, cutoff_date))

contracts_params(since, cutoff_date) ==
  Params(<<Pred("OpportunityType", "eq", "Contract"),
           Pred("OpportunityStatusName", "ne", "1. Draft"),
           Pred("RenewalDate", "ne", "null")>>
         \o Bounds("ModifiedDate", since, cutoff_date))

\* schedule_cutoff.strftime('%Y-%m-%d')
schedule_cutoff(cutoff_date, today) ==
  IF Given(cutoff_date) THEN cutoff_date.day ELSE today.day - months_back * 30

work_tickets_params(since, cutoff_date, today) ==
  Params(<<Pred("ScheduledStartDate", "ge", schedule_cutoff(cutoff_date, today))>>
         \o Bounds("LastModifiedDateTime", since, cutoff_date))

\* the filter a fetch operation sends
ParamsOf(op, since, cutoff_date, today) ==
  CASE op = "fetch_companies" -> companies_params(since, cutoff_date)
    [] op = "fetch_contacts" -> contacts_params(since, cutoff_date)
    [] op = "fetch_properties" -> properties_params(since, cutoff_date)
    [] op = "fetch_opportunities" -> opportunities_params(since, cutoff_date)
    [] op = "fetch_contracts" -> contracts_params(since, cutoff_date)
    [] op = "fetch_work_tickets" -> work_tickets_params(since, cutoff_date, today)

\* the bounds tried: none, or a moment of day 300 or 301
Moments == {NoMoment} \cup {At(d, c) : d \in {300, 301}, c \in {0, 7}}

FilterInputs ==
  {[since |-> s, cutoff_date |-> c, today |-> At(t, 9)] :
     s \in Moments, c \in Moments, t \in {400, 401}}

\* client.fetch_<entity>(modified_since, cutoff_date) up to its request
BuildFilter ==
  /\ pure.phase = "called"
  /\ pure.fn \in FetchOps
  /\ pure' = Result(pure, ParamsOf(pure.fn, pure.arg.since, pure.arg.cutoff_date,
                                   pure.arg.today))
  /\ UNCHANGED <<job, cl, queue, ack, racers, repair>>

\* ------------------------------------------------- calls of the pure functions
PureInit ==
  /\ conf = TRUE
  /\ remote = CleanRemote
  /\ store = [d \in Doctypes |-> <<>>]
  /\ Quiet
  /\ repair = NoRepair
  /\ \/ \E a \in PhoneInputs : pure = Call("clean_phone", a)
     \/ \E fn \in {"parse_date", "parse_datetime"}, a \in DateInputs : pure = Call(fn, a)
     \/ \E fn \in {"opportunity_status", "contract_status"}, a \in SubstringInputs :
          pure = Call(fn, a)
     \/ \E fn \in {"property_status", "work_ticket_status"}, a \in TableInputs :
          pure = Call(fn, a)
     \/ \E fn \in FetchOps, a \in FilterInputs : pure = Call(fn, a)

PureNext ==
  \/ CleanPhone
  \/ ParseDate
  \/ ParseDatetime
  \/ MapStatus
  \/ BuildFilter

PureSpec == PureInit /\ [][PureNext]_vars


\* ------------------------------------------------ claims on pure functions
Done(fn) == pure.phase = "returned" /\ pure.fn = fn

\* the predicates of a filter that bound the modification time
ModifiedFields == {"ModifiedDateTime", "ModifiedDate", "LastModifiedDateTime"}

IsBound(p) == p.field \in ModifiedFields

IsFixed(p) == ~IsBound(p)

\* the predicates an entity's filter always holds
FixedPredicates(op, arg) ==
  CASE op = "fetch_companies" -> <<>>
    [] op = "fetch_contacts" -> <<Pred("Email", "ne", "null"), Pred("Active", "eq", "true")>>
    [] op = "fetch_properties" -> <<Pred("Active", "eq", "true")>>
    [] op = "fetch_opportunities" -> <<Pred("OpportunityType", "eq", "Contract"),
                                       Pred("OpportunityStatusName", "eq", "7. Won")>>
    [] op = "fetch_contracts" -> <<Pred("OpportunityType", "eq", "Contract"),
                                   Pred("OpportunityStatusName", "ne", "1. Draft"),
                                   Pred("RenewalDate", "ne", "null")>>
    [] op = "fetch_work_tickets" ->
         <<Pred("ScheduledStartDate", "ge",
                IF Given(arg.cutoff_date) THEN arg.cutoff_date.day ELSE arg.today.day - 180)>>

\* C23: the filter of every fetch operation is the entity's fixed predicates,
\* one "modified >= midnight of the cutoff date" predicate exactly when a cutoff
\* is given and one "modified > modified_since" predicate exactly when
\* modified_since is given; the request carries no filter only for companies
\* with neither bound.
C23_FilterIsConjunction ==
  \A op \in FetchOps :
    Done(op) =>
      LET f == pure.out.filter
          ge == {i \in DOMAIN f : IsBound(f[i]) /\ f[i].op = "ge"}
          gt == {i \in DOMAIN f : IsBound(f[i]) /\ f[i].op = "gt"}
      IN /\ SelectSeq(f, IsFixed) = FixedPredicates(op, pure.arg)
         /\ Cardinality(ge) = (IF Given(pure.arg.cutoff_date) THEN 1 ELSE 0)
         /\ Cardinality(gt) = (IF Given(pure.arg.since) THEN 1 ELSE 0)
         /\ Len(f) = Len(FixedPredicates(op, pure.arg)) + Cardinality(ge) + Cardinality(gt)
         /\ \A i \in ge : f[i].value = At(pure.arg.cutoff_date.day, 0)
         /\ \A i \in gt : f[i].value = pure.arg.since
         /\ \A i \in ge \cup gt : \A j \in ge \cup gt : f[i].field = f[j].field
         /\ pure.out.has_filter = (f # <<>>)
         /\ (f = <<>>) = (op = "fetch_companies" /\ ~Given(pure.arg.cutoff_date)
                                                 /\ ~Given(pure.arg.since))

\* contracts fetched with both bounds: three fixed predicates and both bounds
C23_Witness ==
  /\ Done("fetch_contracts")
  /\ Given(pure.arg.cutoff_date) /\ Given(pure.arg.since)
  /\ Len(pure.out.filter) = 5

\* the text before the first letter of a text
RECURSIVE BeforeFirstLetter(_)
BeforeFirstLetter(s) ==
  IF s = <<>> \/ IsLetter(s[1]) THEN <<>> ELSE <<s[1]>> \o BeforeFirstLetter(Tail(s))

\* clean_phone as stated: cut at the first letter (an x/ext marker is one),
\* keep the phone characters of what precedes, null below seven digits
PhoneAsStated(s) ==
  LET kept == SelectSeq(BeforeFirstLetter(s), IsPhoneChar)
  IN IF Len(SelectSeq(kept, IsDigit)) >= 7 THEN Value(Strip(kept)) ELSE None

\* C25: clean_phone returns the phone characters that precede the extension
\* marker or first letter, null if these hold fewer than seven digits: no
\* digit that follows a letter is in the result.
C25_CutsAtFirstLetter ==
  Done("clean_phone") =>
    /\ pure.out.null = PhoneAsStated(pure.arg).null
    /\ pure.out.value = PhoneAsStated(pure.arg).value

\* a text that spells a date of the calendar, alone or with a valid clock time,
\* with or without a zone suffix
WellFormed(v) ==
  /\ v.kind = "str" /\ v.truthy /\ v.text.shape = "iso"
  /\ v.text.ymd[2] \in 1..12
  /\ v.text.ymd[3] \in 1..DaysIn(v.text.ymd[1], v.text.ymd[2])
  /\ v.text.hms = NoClock \/ (v.text.hms[1] < 24 /\ v.text.hms[2] < 60 /\ v.text.hms[3] < 60)

\* the clock time of the naive datetime a well-formed text yields: the one it
\* spells; midnight for a date alone or followed by Z; and, for a date
\* followed directly by the offset +05:00, the offset's digits
NaiveClock(text) ==
  IF text.hms # NoClock THEN text.hms
  ELSE IF text.zone = "+05:00" THEN <<5, 0, 0>> ELSE <<0, 0, 0>>

\* C26: parse_date and parse_datetime never raise: a well-formed ISO-8601
\* string, with or without trailing Z, yields its date, respectively a naive
\* datetime without fraction on that date, and every other value (empty,
\* null, malformed, not a string) yields null.
C26_ParseIsTotal ==
  \A fn \in {"parse_date", "parse_datetime"} :
    Done(fn) =>
      /\ pure.out.raised = ""
      /\ pure.out.null = ~WellFormed(pure.arg)
      /\ WellFormed(pure.arg) =>
           /\ pure.out.value.ymd = pure.arg.text.ymd
           /\ fn = "parse_datetime" =>
                pure.out.value = [ymd |-> pure.arg.text.ymd,
                                  hms |-> NaiveClock(pure.arg.text)]

\* parse_datetime of a number returned null
C26_Witness ==
  /\ Done("parse_datetime")
  /\ pure.arg.kind = "int" /\ pure.arg.truthy
  /\ pure.out.null

\* the status mapping as stated
StatusAsStated(fn, field) ==
  CASE fn \in {"opportunity_status", "contract_status"} ->
         IF field.kind = "str" /\ Contains(field.text, Won) THEN "Won"
         ELSE IF field.kind = "str" /\ Contains(field.text, Lost) THEN "Lost"
         ELSE "Open"
    [] fn = "property_status" ->
         IF field.kind = "str" /\ field.text = Customer THEN "Customer"
         ELSE IF field.kind = "str" /\ field.text = Prospect THEN "Prospect"
         ELSE "Inactive"
    [] fn = "work_ticket_status" ->
         IF field.kind = "str" /\ field.text = InProgress THEN "In Progress"
         ELSE IF field.kind = "str" /\ field.text = Complete THEN "Complete"
         ELSE IF field.kind = "str" /\ field.text = Cancelled THEN "Cancelled"
         ELSE "Scheduled"

\* C27: the status mapping is total: every status field, missing and null
\* included, maps to a status and none raises; Won before Lost before Open by
\* substring for opportunities and contracts, the table entry or the fallback
\* for properties and work tickets.
C27_StatusMappingIsTotal ==
  \A fn \in StatusFns :
    Done(fn) =>
      /\ pure.out.raised = ""
      /\ pure.out.value = StatusAsStated(fn, pure.arg)

\* the part of C27 that holds: the mapping of contracts, properties and work
\* tickets for every status field that is not null
StatusMappingOfStrings ==
  \A fn \in StatusFns \ {"opportunity_status"} :
    Done(fn) /\ ~(fn = "contract_status" /\ pure.arg = Null) =>
      /\ pure.out.raised = ""
      /\ pure.out.value = StatusAsStated(fn, pure.arg)


\* ================================================= whitelisted entry points
\* manual_sync and manual_aspire_sync are called in a web request; the jobs
\* they enqueue are started by a background worker of the "long" queue.  queue
\* lists the jobs enqueued so far; the worker has started the first runs of them.
MaxQueued == 2

\* mutant of manual_sync: the sync runs in the request
manual_sync_RunsNow(entity_type) ==
  /\ Len(queue) < MaxQueued
  /\ Begin("full_sync", NoTime)

\* frappe.enqueue(full_sync, queue="long", timeout=3600); return {"message": ...}
manual_sync(entity_type) ==
  /\ Len(queue) < MaxQueued
  /\ queue' = Append(queue, "full_sync")
  /\ ack' = "Sync job queued"
  /\ UNCHANGED <<job, cl, racers, repair, pure>>

\* frappe.enqueue(sync_aspire_data, queue="long", timeout=3600); return {...}
manual_aspire_sync ==
  /\ Len(queue) < MaxQueued
  /\ queue' = Append(queue, "sync_aspire_data")
  /\ ack' = "Aspire data sync job queued"
  /\ UNCHANGED <<job, cl, racers, repair, pure>>

\* the worker calls the next enqueued function, without arguments
StartQueued ==
  /\ runs < Len(queue)
  /\ \/ queue[runs + 1] = "full_sync" /\ full_sync
     \/ queue[runs + 1] = "sync_aspire_data" /\ sync_aspire_data("")

EntityTypes == {"All", "Company"}

DispatchInit ==
  /\ conf = TRUE
  /\ remote = CleanRemote
  /\ Idle

DispatchNext ==
  \/ \E entity_type \in EntityTypes : manual_sync(entity_type)
  \/ manual_aspire_sync
  \/ StartQueued
  \/ AspireClient
  \/ Fetch
  \/ ProcessRecord
  \/ Return
  \/ Finalize

DispatchSpec == DispatchInit /\ [][DispatchNext]_vars

\* a request was served
Enqueued == queue' # queue

\* a request enqueues one job, acknowledges, and leaves the site, the logs and
\* the client alone
RequestOnlyEnqueues ==
  Enqueued =>
    /\ Len(queue') = Len(queue) + 1
    /\ SubSeq(queue', 1, Len(queue)) = queue
    /\ ack' = IF queue'[Len(queue')] = "full_sync" THEN "Sync job queued"
              ELSE "Aspire data sync job queued"
    /\ UNCHANGED <<job, cl>>

\* a run log is created by the start of an enqueued job, and is that job's log
LogOnlyAtJobStart ==
  Len(logs') > Len(logs) =>
    /\ ~Enqueued
    /\ runs' = runs + 1
    /\ runs' <= Len(queue)
    /\ logs'[Len(logs')].sync_type = SyncType(queue[runs'])
    /\ logs'[Len(logs')].status = "Running"

\* C22: manual_sync and manual_aspire_sync do no sync work in the request: a
\* call enqueues exactly one job and returns its acknowledgment, creating no
\* log, constructing no client, fetching and writing nothing; a run log
\* appears only when the worker starts an enqueued job.
C22_RequestsOnlyEnqueue ==
  /\ [][RequestOnlyEnqueues /\ LogOnlyAtJobStart]_vars
  /\ [](Len(logs) = runs /\ runs <= Len(queue))

\* two requests were acknowledged while the first job was running and no log
\* exists for the second yet
C22_Witness ==
  /\ queue = <<"full_sync", "sync_aspire_data">>
  /\ ack = "Aspire data sync job queued"
  /\ Len(logs) = 1
  /\ pc = "loop"


\* ============================================ two runs at the same time
\* Two workers (a scheduled and an enqueued job, or two enqueued jobs) run
\* full_sync on the same site.  Each is followed through create_sync_log, the
\* fetch and the loop of sync_companies, statement by statement: the lookup and the write of one
\* record are separate steps, and the other worker may write in between.
Workers == 1..2

\* everything of the site but the documents and the logs
BesideStoreAndLogs ==
  <<conf, remote, now, pc, entry, cutoff, start_time, log_name, modified_since, stats,
    all_errors, step, records, idx, errors, company_map, property_map, uncommitted,
    result, faults, runs, order, issued, ev, made, received, prev, paused, skipped, skip, all_records>>

\* mutant of SaveOrInsert: the write looks the record up again
SaveOrInsert_Rechecks(fn, docs, data, existing) == Upsert(fn, docs, data)

\* "if existing: doc = frappe.get_doc(doctype, existing); doc.update(data);
\* doc.save()  else: doc = frappe.get_doc(data); doc.insert()", with the
\* existing the lookup returned
SaveOrInsert(fn, docs, data, existing) ==
  IF existing # 0
  THEN [i \in DOMAIN docs |-> IF docs[i].name = existing THEN Merged(fn, docs[i], data) ELSE docs[i]]
  ELSE Append(docs, Named(data, Len(docs) + 1))

\* full_sync up to its try block: log_name = create_sync_log("Full", "All"),
\* which inserts the Running log and commits it, so that the other worker
\* sees it
RaceStart(w) ==
  /\ racers[w].pc = "idle"
  /\ logs' = Append(logs, create_sync_log("Full", "All"))
  /\ racers' = [racers EXCEPT ![w] = [@ EXCEPT !.pc = "started", !.log = Len(logs) + 1]]
  /\ UNCHANGED <<store, BesideStoreAndLogs, cl, queue, ack, repair, pure>>

\* AspireClient(), publish_realtime and companies = client.fetch_companies():
\* the remote holds fewer companies than a page, so that the fetch is the
\* authentication POST and one GET
RaceFetch(w) ==
  /\ racers[w].pc = "started"
  /\ racers' = [racers EXCEPT ![w] =
       [@ EXCEPT !.pc = "lookup",
                 !.records = Matching(remote["fetch_companies"], NoTime, NoTime, NoTime)]]
  /\ UNCHANGED <<store, logs, BesideStoreAndLogs, cl, queue, ack, repair, pure>>

\* existing = frappe.db.get_value("Customer", {"custom_aspire_company_id": aspire_id}, "name")
RaceLookup(w) ==
  /\ racers[w].pc = "lookup"
  /\ racers[w].idx < Len(racers[w].records)
  /\ racers' = [racers EXCEPT ![w] =
       [@ EXCEPT !.pc = "write",
                 !.existing = GetValue(store["Customer"],
                                       racers[w].records[racers[w].idx + 1].id)]]
  /\ UNCHANGED <<store, logs, BesideStoreAndLogs, cl, queue, ack, repair, pure>>

\* the save or insert that follows the lookup
RaceWrite(w) ==
  /\ racers[w].pc = "write"
  /\ LET r == racers[w].records[racers[w].idx + 1]
         data == transform_company_to_customer(r, now)
     IN store' = [store EXCEPT !["Customer"] =
                    SaveOrInsert("sync_companies", @, data, racers[w].existing)]
  /\ racers' = [racers EXCEPT ![w] =
       [@ EXCEPT !.pc = "lookup", !.idx = @ + 1,
                 !.created = IF racers[w].existing = 0 THEN @ + 1 ELSE @,
                 !.updated = IF racers[w].existing # 0 THEN @ + 1 ELSE @]]
  /\ UNCHANGED <<logs, BesideStoreAndLogs, cl, queue, ack, repair, pure>>

\* the end of the loop of sync_companies
RaceReturn(w) ==
  /\ racers[w].pc = "lookup"
  /\ racers[w].idx = Len(racers[w].records)
  /\ racers' = [racers EXCEPT ![w] = [@ EXCEPT !.pc = "returned"]]
  /\ UNCHANGED <<store, logs, BesideStoreAndLogs, cl, queue, ack, repair, pure>>

RaceInit ==
  /\ conf = TRUE
  /\ remote = TimedRemote
  /\ Idle

RaceNext ==
  \/ \E w \in Workers : RaceStart(w)
  \/ \E w \in Workers : RaceFetch(w)
  \/ \E w \in Workers : RaceLookup(w)
  \/ \E w \in Workers : RaceWrite(w)
  \/ \E w \in Workers : RaceReturn(w)

RaceSpec == RaceInit /\ [][RaceNext]_vars

\* worker w is between the start and the return of its run
Running(w) == racers[w].pc \in {"started", "lookup", "write"}

\* the Customer documents that carry an external id
Carrying(docs, id) == {i \in DOMAIN docs : docs[i].ext = id}

\* a write whose lookup found nothing inserts a document, whatever the other
\* worker wrote since the lookup
StaleLookupInserts ==
  \A w \in Workers :
    racers[w].pc = "write" /\ racers'[w].pc = "lookup" /\ racers[w].existing = 0 =>
      LET id == racers[w].records[racers[w].idx + 1].id
      IN Cardinality(Carrying(store'["Customer"], id))
           = Cardinality(Carrying(store["Customer"], id)) + 1

\* a run can start whatever the other worker is doing
StartIsUnguarded == \A w \in Workers : racers[w].pc = "idle" => ENABLED RaceStart(w)

\* C21: no entry point checks for a run in progress, and the upsert is a
\* lookup followed by a write: a write whose lookup found no record inserts
\* one even if the other run has inserted a record with that external id in
\* between, so two runs can leave two records with one external id.
C21_UpsertRaces ==
  /\ [][StaleLookupInserts]_vars
  /\ []StartIsUnguarded

\* both runs were in progress at once and each inserted company 1
C21_Witness ==
  /\ \A w \in Workers : Running(w) /\ racers[w].created >= 1
  /\ Cardinality(Carrying(store["Customer"], 1)) = 2
  /\ Len(logs) = 2 /\ logs[1].status = "Running" /\ logs[2].status = "Running"


\* ============================================================ repair passes
\* link_work_tickets_to_properties and link_properties_to_customers.  A dict
\* is the list of its <<key, value>> assignments; a later one replaces an
\* earlier one.  A link that is not set is 0.
Pair(k, v) == <<k, v>>

\* d.get(key)
DictGet(d, key) ==
  LET at == {i \in DOMAIN d : d[i][1] = key}
  IN IF at = {} THEN 0 ELSE d[CHOOSE i \in at : \A j \in at : j <= i][2]

\* "for svc in opp_services: ... if svc_id and opp_id: service_to_opp[svc_id] = opp_id"
service_to_opp(opp_services) ==
  LET kept == SelectSeq(opp_services, LAMBDA svc : svc.sid # 0 /\ svc.oid # 0)
  IN [i \in DOMAIN kept |-> Pair(kept[i].sid, kept[i].oid)]

\* Opportunities with custom_service_property set, by custom_aspire_opportunity_id
opp_to_property(opportunities) ==
  LET kept == SelectSeq(opportunities, LAMBDA opp : opp.property # 0 /\ opp.ext # 0)
  IN [i \in DOMAIN kept |-> Pair(kept[i].ext, kept[i].property)]

\* the CompanyID of the first entry of PropertyContacts that has one
FirstCompany(contacts) ==
  LET with == SelectSeq(contacts, LAMBDA c : c # 0)
  IN IF with = <<>> THEN 0 ELSE with[1]

\* "if prop_id and company_id: property_to_company[prop_id] = company_id"
property_to_company(properties) ==
  LET kept == SelectSeq(properties, LAMBDA p : p.id # 0 /\ FirstCompany(p.contacts) # 0)
  IN [i \in DOMAIN kept |-> Pair(kept[i].id, FirstCompany(kept[i].contacts))]

\* Customers with custom_aspire_company_id > 0, by that id
company_to_customer(customers) ==
  LET kept == SelectSeq(customers, LAMBDA c : c.ext > 0)
  IN [i \in DOMAIN kept |-> Pair(kept[i].ext, kept[i].name)]

\* mutant of TicketsToLink: every ticket with a service id is taken
TicketsToLink_All(work_tickets) ==
  SelectSeq(work_tickets, LAMBDA wt : wt.service # 0)

\* filters: aspire_opportunity_service_id is set, service_property is not set
TicketsToLink(work_tickets) ==
  SelectSeq(work_tickets, LAMBDA wt : wt.service # 0 /\ wt.property = 0)

\* filters: aspire_property_id > 0, customer is not set
PropertiesToLink(service_properties) ==
  SelectSeq(service_properties, LAMBDA sp : sp.ext > 0 /\ sp.company = 0)

\* the key a pass looks its target up by, and the doctype and field it writes
KeyOf(pass, doc) == IF pass = "tickets" THEN doc.service ELSE doc.ext

TargetDoctype(pass) == IF pass = "tickets" THEN "Work Ticket" ELSE "Service Property"


\* mutant of SetLink: the value is not written
SetLink_Nothing(pass, docs, name, value) == docs

\* frappe.db.set_value(doctype, name, field, value, update_modified=False)
SetLink(pass, docs, name, value) ==
  [k \in DOMAIN docs |->
     IF docs[k].name = name
     THEN (IF pass = "tickets" THEN [docs[k] EXCEPT !.property = value]
           ELSE [docs[k] EXCEPT !.company = value])
     ELSE docs[k]]

\* what OpportunityServices and Properties may hold when a pass fetches them
ServiceLists ==
  {<<>>,
   <<[sid |-> 5, oid |-> 1]>>,
   <<[sid |-> 5, oid |-> 1], [sid |-> 6, oid |-> 9]>>,
   <<[sid |-> 5, oid |-> 9], [sid |-> 5, oid |-> 1], [sid |-> 6, oid |-> 0]>>}

PropertyLists ==
  {<<>>,
   <<[id |-> 1, contacts |-> <<0, 1>>]>>,
   <<[id |-> 1, contacts |-> <<1>>], [id |-> 2, contacts |-> <<>>]>>,
   <<[id |-> 1, contacts |-> <<7, 1>>], [id |-> 2, contacts |-> <<1>>]>>}

\* client = AspireClient(); the fetch; the maps; the records to link
LinkBegin(pass, fetched) ==
  /\ repair.pc = "idle"
  /\ repair' = [NoRepair EXCEPT
       !.pass = pass, !.pc = "loop", !.fetched = fetched, !.site = store,
       !.first = IF pass = "tickets" THEN service_to_opp(fetched)
                 ELSE property_to_company(fetched),
       !.second = IF pass = "tickets" THEN opp_to_property(store["Opportunity"])
                  ELSE company_to_customer(store["Customer"]),
       !.targets = IF pass = "tickets" THEN TicketsToLink(store["Work Ticket"])
                   ELSE PropertiesToLink(store["Service Property"])]
  /\ UNCHANGED <<job, cl, queue, ack, racers, pure>>

link_work_tickets_to_properties == \E fetched \in ServiceLists : LinkBegin("tickets", fetched)

link_properties_to_customers == \E fetched \in PropertyLists : LinkBegin("properties", fetched)


\* a pass is called once more after a pass has returned
LinkAgain(pass, fetched) ==
  /\ repair.pc = "done"
  /\ ~repair.again
  /\ repair' = [NoRepair EXCEPT
       !.pass = pass, !.pc = "loop", !.fetched = fetched, !.site = store,
       !.again = TRUE,
       !.before = [pass |-> repair.pass, fetched |-> repair.fetched,
                   updated |-> repair.updated, not_found |-> repair.not_found],
       !.first = IF pass = "tickets" THEN service_to_opp(fetched)
                 ELSE property_to_company(fetched),
       !.second = IF pass = "tickets" THEN opp_to_property(store["Opportunity"])
                  ELSE company_to_customer(store["Customer"]),
       !.targets = IF pass = "tickets" THEN TicketsToLink(store["Work Ticket"])
                   ELSE PropertiesToLink(store["Service Property"])]
  /\ UNCHANGED <<job, cl, queue, ack, racers, pure>>

\* either pass, called a second time
SecondPass ==
  \/ \E fetched \in ServiceLists : LinkAgain("tickets", fetched)
  \/ \E fetched \in PropertyLists : LinkAgain("properties", fetched)

\* the fetch raises AspireAPIError, which the pass does not handle
LinkFetchFails ==
  /\ repair.pc = "idle"
  /\ repair' = [NoRepair EXCEPT !.pc = "raised"]
  /\ UNCHANGED <<job, cl, queue, ack, racers, pure>>

\* one iteration of the loop of either pass
LinkStep ==
  /\ repair.pc = "loop"
  /\ repair.i < Len(repair.targets)
  /\ LET target == repair.targets[repair.i + 1]
         middle == DictGet(repair.first, KeyOf(repair.pass, target))
         link == IF middle # 0 THEN DictGet(repair.second, middle) ELSE 0
         dt == TargetDoctype(repair.pass)
     IN /\ store' = IF link # 0
                    THEN [store EXCEPT ![dt] = SetLink(repair.pass, @, target.name, link)]
                    ELSE store
        /\ repair' = [repair EXCEPT
             !.i = @ + 1,
             !.updated = IF link # 0 THEN @ + 1 ELSE @,
             !.not_found = IF link = 0 THEN @ + 1 ELSE @,
             !.pending = AfterRecord(repair.i, @)]
  /\ UNCHANGED <<logs, BesideStoreAndLogs, cl, queue, ack, racers, pure>>

\* frappe.db.commit(); return {"updated": updated, "not_found": not_found}
LinkReturn ==
  /\ repair.pc = "loop"
  /\ repair.i = Len(repair.targets)
  /\ repair' = [repair EXCEPT !.pc = "done", !.pending = 0]
  /\ UNCHANGED <<job, cl, queue, ack, racers, pure>>


\* Sites a repair pass may find after earlier syncs: Customer 1; Service
\* Properties 1 and 2, each with or without Aspire id and customer; the
\* Opportunity 1 with or without its property; Work Tickets 1 and 2, each with
\* or without service id and property.
SyncedTicket(n, service, property) ==
  Named(transform_work_ticket([Rec(n, 0, 0, 0) EXCEPT !.sid = service], property, 0), n)

SyncedProperty(n, id, customer) ==
  Named(transform_property_to_service_property(Rec(id, 0, 0, 0), customer, 0), n)

SyncedOpportunity(n, id, property) ==
  Named(transform_opportunity(Rec(id, 0, 0, 0), 1, property, 0), n)

RepairSites ==
  {[d \in Doctypes |->
      CASE d = "Customer" -> <<Named(transform_company_to_customer(Rec(1, 0, 0, 0), 0), 1)>>
        [] d = "Service Property" -> <<SyncedProperty(1, p[1], p[2]), SyncedProperty(2, 2, p[3])>>
        [] d = "Opportunity" -> <<SyncedOpportunity(1, 1, o)>>
        [] d = "Work Ticket" -> <<SyncedTicket(1, t[1], t[2]), SyncedTicket(2, t[3], t[4])>>
        [] OTHER -> <<>>] :
     p \in {0, 1} \X {0, 1} \X {0, 1},
     o \in {0, 1},
     t \in {0, 5} \X {0, 2} \X {0, 5, 6} \X {0, 2}}

RepairInit ==
  /\ conf = TRUE
  /\ remote = CleanRemote
  /\ store \in RepairSites
  /\ Quiet
  /\ repair = NoRepair
  /\ pure = NoCall

RepairNext ==
  \/ link_work_tickets_to_properties
  \/ link_properties_to_customers
  \/ SecondPass
  \/ LinkFetchFails
  \/ LinkStep
  \/ LinkReturn

RepairSpec == RepairInit /\ [][RepairNext]_vars

\* the link field of a document, for the pass that fills it
LinkOf(dt, doc) == IF dt = "Work Ticket" THEN doc.property ELSE doc.company

\* the link the chain of lookups leads to from a document, 0 if it breaks:
\* ticket -> fetched service -> Opportunity -> its Service Property, and
\* property -> fetched property's first company -> Customer
ChainEnd(dt, doc) ==
  IF dt = "Work Ticket"
  THEN LET opp == DictGet(service_to_opp(repair.fetched), doc.service)
           with == {k \in DOMAIN store["Opportunity"] :
                      /\ opp # 0
                      /\ store["Opportunity"][k].ext = opp
                      /\ store["Opportunity"][k].property # 0}
       IN IF with = {} THEN 0
          ELSE store["Opportunity"][CHOOSE k \in with : TRUE].property
  ELSE LET co == DictGet(property_to_company(repair.fetched), doc.ext)
           with == {k \in DOMAIN store["Customer"] :
                      co # 0 /\ store["Customer"][k].ext = co}
       IN IF with = {} THEN 0
          ELSE store["Customer"][CHOOSE k \in with : TRUE].name

\* a step of a pass writes at most the missing link of one document of its
\* doctype, with the end of the resolved chain
OnlyBackfills ==
  \A dt \in Doctypes :
    /\ Len(store'[dt]) = Len(store[dt])
    /\ \A k \in DOMAIN store[dt] :
         store'[dt][k] # store[dt][k] =>
           /\ dt = TargetDoctype(repair.pass)
           /\ LinkOf(dt, store[dt][k]) = 0
           /\ ChainEnd(dt, store[dt][k]) # 0
           /\ store'[dt][k] = IF dt = "Work Ticket"
                              THEN [store[dt][k] EXCEPT !.property = ChainEnd(dt, store[dt][k])]
                              ELSE [store[dt][k] EXCEPT !.company = ChainEnd(dt, store[dt][k])]

\* C24: the repair passes only backfill: a document whose link is set is never
\* modified, one whose link is missing changes in that link field alone and
\* only when the whole chain resolves, and no document is created or deleted.
C24_RepairOnlyBackfills == [][OnlyBackfills]_vars

\* a finished pass over the work tickets that linked ticket 1 and could not
\* link ticket 2
C24_Witness ==
  /\ repair.pass = "tickets" /\ repair.pc = "done"
  /\ repair.updated = 1 /\ repair.not_found = 1
  /\ store["Work Ticket"][1].property = 1
  /\ store["Work Ticket"][2].property = 0


\* the documents of a site a pass takes as candidates: source id set, link missing
Candidates(pass, site) ==
  LET docs == site[TargetDoctype(pass)]
  IN {k \in DOMAIN docs :
        /\ IF pass = "tickets" THEN docs[k].service # 0 ELSE docs[k].ext > 0
        /\ LinkOf(TargetDoctype(pass), docs[k]) = 0}

\* the documents whose link the pass in hand has set since it began
LinkedByPass ==
  LET dt == TargetDoctype(repair.pass)
  IN {k \in DOMAIN store[dt] :
        LinkOf(dt, repair.site[dt][k]) = 0 /\ LinkOf(dt, store[dt][k]) # 0}

\* the pass in hand repeats the pass before it on the same fetched data
SamePassAgain ==
  repair.again /\ repair.before.pass = repair.pass /\ repair.before.fetched = repair.fetched

\* C38: a repair pass returns updated + not_found = number of candidates and
\* updated = number of links it set; the same pass run again on unchanged
\* data sets no link: updated = 0 and not_found as before.
C38_RepairCounts ==
  repair.pc = "done" =>
    /\ repair.updated + repair.not_found = Cardinality(Candidates(repair.pass, repair.site))
    /\ repair.updated = Cardinality(LinkedByPass)
    /\ SamePassAgain =>
         /\ repair.updated = 0
         /\ repair.not_found = repair.before.not_found
         /\ store = repair.site

\* the work-ticket pass linked one ticket and missed one, and its repetition
\* linked none and missed one
C38_Witness ==
  /\ repair.pc = "done" /\ SamePassAgain
  /\ repair.pass = "tickets"
  /\ repair.before.updated = 1 /\ repair.before.not_found = 1
  /\ repair.updated = 0 /\ repair.not_found = 1


\* ------------------------------------------------------ company resolution
ContractKinds == {"sync_opportunities", "sync_aspire_contracts"}

\* the record the loop is at
AtRecord == records[idx + 1]

\* the id the company of a contract or opportunity is looked up by
BillingFirst(r) == IF r.bid # 0 THEN r.bid ELSE r.cid

\* the loop passes a record without an exception
Passes == pc = "loop" /\ idx' = idx + 1 /\ ev' \in {"skipped", "created", "updated"}

\* the document stored for the record just passed
StoredFor(fn, r) ==
  LET docs == store'[doctype_of(fn)]
  IN docs[CHOOSE k \in DOMAIN docs : docs[k].name = GetValue(docs, r.id)]

ResolutionRule ==
  Passes =>
    LET fn == CurrentFn
        r == AtRecord
    IN IF fn \in ContractKinds
       THEN /\ (ev' = "skipped") = (BillingFirst(r) \notin DOMAIN company_map)
            /\ ev' = "skipped" => store' = store /\ stats' = stats
            /\ ev' # "skipped" => StoredFor(fn, r).company = company_map[BillingFirst(r)]
       ELSE /\ ev' # "skipped"
            /\ stats'.created + stats'.updated = stats.created + stats.updated + 1
            /\ company_source(fn) # "" /\ fn # "sync_contacts" /\ r.cid \notin DOMAIN company_map
                 => StoredFor(fn, r).company = 0
            /\ property_source(fn) # "" /\ fn # "sync_contacts" /\ r.pid \notin DOMAIN property_map
                 => StoredFor(fn, r).property = 0

\* what holds: a contract or opportunity is resolved by BillingCompanyID when
\* that is present and non-zero, else by CompanyID, and is skipped exactly when
\* the chosen id is not in the company map, even if the other id is; a record
\* of any other kind is never skipped and is counted as created or updated,
\* and but for contacts it is stored with a null link when its reference does
\* not resolve
BillingCompanyFirst == [][ResolutionRule]_vars

\* the rule with no entity kind excepted
ResolutionRuleForAll ==
  Passes =>
    LET fn == CurrentFn
        r == AtRecord
    IN IF fn \in ContractKinds
       THEN /\ (ev' = "skipped") = (BillingFirst(r) \notin DOMAIN company_map)
            /\ ev' = "skipped" => store' = store /\ stats' = stats
            /\ ev' # "skipped" => StoredFor(fn, r).company = company_map[BillingFirst(r)]
       ELSE /\ ev' # "skipped"
            /\ stats'.created + stats'.updated = stats.created + stats.updated + 1
            /\ company_source(fn) # "" /\ r.cid \notin DOMAIN company_map
                 => StoredFor(fn, r).company = 0
            /\ property_source(fn) # "" /\ r.pid \notin DOMAIN property_map
                 => StoredFor(fn, r).property = 0

\* C36: a contract or opportunity is resolved by BillingCompanyID when that is
\* present and non-zero, else by CompanyID, and is skipped exactly when the
\* chosen id is not in the company map, even if the other id is; a record of
\* any other kind with an unresolved reference is upserted with a null link
\* and counted as created or updated.
C36_BillingCompanyFirst == [][ResolutionRuleForAll]_vars


\* -------------------------------------------------------------- failed runs
\* the run in hand was finalized as Failed
FailedRun == RunEnded /\ ev = "failed" /\ logs[log_name].status = "Failed"

\* the sync functions of the run that returned before the failure
Finished == {k \in DOMAIN order : k <= Len(received)}

\* the doctypes the run had not reached when it failed
Unreached ==
  {doctype_of(Pipeline(entry)[k]) : k \in (Len(received) + 1)..Len(Pipeline(entry))}

\* a Failed run stopped between two entity syncs: every pulled record was
\* passed by its loop, nothing is uncommitted, and the doctypes of the failed
\* and the later steps are as they were when the run began
StoppedBetweenEntities ==
  FailedRun =>
    /\ pc = "idle" /\ uncommitted = 0
    /\ Len(order) \in {0, Len(received) + 1}
    /\ stats.pulled = TotalLen(received)
    /\ Counted = stats.pulled + 1
    /\ idx = Len(records)
    /\ \A dt \in Unreached \ {doctype_of(order[k]) : k \in Finished} :
         store[dt] = prev.store[dt]

\* the failure itself writes and removes nothing
FailureKeepsWrites ==
  ev' = "failed" /\ ev # "failed" =>
    /\ store' = store
    /\ uncommitted = 0
    /\ uncommitted' = 0

\* C35: an API error is raised in a fetch, before any write of that entity:
\* in a Failed run every entity kind is completely processed or untouched,
\* and what the finished entity syncs wrote stays committed.
C35_FailsBetweenEntities ==
  /\ []StoppedBetweenEntities
  /\ [][FailureKeepsWrites]_vars

\* a run that failed in its second fetch: the companies are stored, no
\* property is
C35_Witness ==
  /\ FailedRun
  /\ Len(order) = 2 /\ Len(received) = 1
  /\ runs = 1
  /\ store[doctype_of(order[1])] # <<>>
  /\ store[doctype_of(Pipeline(entry)[2])] = <<>>


\* ------------------------------------------- run history and incremental runs
\* the current invocation is an incremental run that completed after a
\* cutoff-bounded or manual run that ended in Success, and both were returned
\* in full what their filters matched
IncrementalAfterManual ==
  /\ runs = 2 /\ RunEnded /\ ev = "completed"
  /\ entry = "incremental_sync"
  /\ prev.entry \in {"sync_aspire_data", "resync_since"}
  /\ prev.ev = "completed" /\ prev.stats.errors = 0
  /\ NothingMissed(issued, received)
  /\ NothingMissed(prev.issued, prev.received)

\* the documents of a doctype hold every record of a remote collection
HoldsAll(d, coll) == \A j \in DOMAIN coll : \E i \in DOMAIN store[d] : store[d][i].ext = coll[j].id

\* C32: a Success run of resync_since or sync_aspire_data does not make a later
\* incremental_sync skip remote records modified before that run completed
\* that were never synced into the entity kinds incremental_sync maintains:
\* after the incremental run every remote company has its Customer and every
\* remote contact its Contact.
C32_ManualRunsLeaveHistoryAlone ==
  IncrementalAfterManual =>
    /\ HoldsAll("Customer", remote["fetch_companies"])
    /\ HoldsAll("Contact", remote["fetch_contacts"])


\* ------------------------------------------------- failed authentication
\* the step is an authentication POST that raised
RefreshRaised == cl' # cl /\ cl'.act \in {"auth_failed", "test_false"}

\* the step is an authentication POST that was answered without a token
AnsweredWithoutToken ==
  /\ cl' # cl /\ cl'.posted
  /\ cl'.act \in {"no_token", "test_true"}
  /\ cl'.token = 0

\* the step is an authentication attempt that gave the client no token
RefreshFailed == RefreshRaised \/ AnsweredWithoutToken

\* the client's last authentication attempt gave it no token
LastAttemptFailed == cl.failed \/ (cl.token = 0 /\ cl.token_expires # NoTime)

\* the step is the next call of _get_auth_token after such an attempt
RequestAfterFailure == cl' # cl /\ LastAttemptFailed /\ cl'.act # "begin"

\* C37: a failed authentication attempt leaves the cached token and the cached
\* expiry as they were, so the client does not hold a fresh token afterwards,
\* and the next request after it issues the authentication POST again instead
\* of sending the token it holds.
C37_FailedAuthKeepsCache ==
  [][/\ RefreshFailed =>
          /\ cl'.token = cl.token
          /\ cl'.token_expires = cl.token_expires
          /\ ~Cached(cl')
     /\ RequestAfterFailure => cl'.posted]_vars

\* what holds of it: an attempt that raised leaves token and expiry as they
\* were, no failed attempt leaves a token that counts as cached, and the next
\* call after a failed attempt issues the POST again
FailedAuthIsRetried ==
  [][/\ RefreshRaised =>
          /\ cl'.token = cl.token
          /\ cl'.token_expires = cl.token_expires
     /\ RefreshFailed => ~Cached(cl')
     /\ RequestAfterFailure => cl'.posted]_vars

\* ------------------------------------------------- syncs after a repair pass
\* The collections as the remote serves them where the repair passes are
\* needed: the property carries no CompanyID and the work ticket no PropertyID,
\* the ticket carries its OpportunityServiceID.
OrphanRemote ==
  [CleanRemote EXCEPT !["fetch_properties"] = <<Rec(1, 0, 0, 0)>>,
                      !["fetch_work_tickets"] = <<[Rec(1, 0, 0, 0) EXCEPT !.sid = 5]>>]

\* A repair pass on a site left by earlier syncs, then a full sync.
RelinkInit ==
  /\ conf = TRUE
  /\ remote = OrphanRemote
  /\ store \in RepairSites
  /\ Quiet
  /\ repair = NoRepair
  /\ pure = NoCall

\* the sync is started after the pass has returned
SyncAfterRepair ==
  /\ repair.pc = "done"
  /\ full_sync

RelinkNext ==
  \/ link_work_tickets_to_properties
  \/ link_properties_to_customers
  \/ LinkStep
  \/ LinkReturn
  \/ SyncAfterRepair
  \/ AspireClient
  \/ Fetch
  \/ ProcessRecord
  \/ Return
  \/ Finalize

RelinkSpec == RelinkInit /\ [][RelinkNext]_vars

\* the documents whose link the returned pass has set
Backfilled(dt) ==
  {k \in DOMAIN store[dt] :
     /\ repair.pc = "done"
     /\ dt = TargetDoctype(repair.pass)
     /\ k \in DOMAIN repair.site[dt]
     /\ LinkOf(dt, repair.site[dt][k]) = 0
     /\ LinkOf(dt, store[dt][k]) # 0}

\* a step leaves every backfilled link set
LinksKept ==
  \A dt \in {"Service Property", "Work Ticket"} :
    \A k \in Backfilled(dt) : LinkOf(dt, store'[dt][k]) # 0

\* C34: a cross-reference backfilled by a repair pass persists across later
\* syncs: an update of the record by sync_properties or sync_work_tickets whose
\* own reference does not resolve leaves the link set.
C34_BackfilledLinksPersist == [][LinksKept]_vars


\* ------------------------------------------------- a remote side that changes
\* Company 1, and an opportunity that bills company 2, which the remote does
\* not hold yet.
DriftRemote ==
  [op \in FetchOps |->
     CASE op = "fetch_companies"     -> <<Rec(1, 0, 0, 0)>>
       [] op = "fetch_opportunities" -> <<Rec(1, 2, 0, 0)>>
       [] OTHER                      -> <<>>]

DriftInit ==
  /\ conf = TRUE
  /\ remote = DriftRemote
  /\ Idle

\* what a change of the remote side leaves alone
BesideRemoteAndClock ==
  <<conf, store, logs, pc, entry, cutoff, start_time, log_name,
    modified_since, stats, all_errors, step, records, idx, errors,
    company_map, property_map, uncommitted, result, faults, runs,
    order, issued, ev, made, received, prev, paused, skipped, skip, all_records>>

\* A user of the remote system edits a record: its payload changes and its
\* modification time becomes the current time.  Each record is edited once.
RemoteModify(op, i) ==
  /\ remote[op][i].val = "a"
  /\ remote' = [remote EXCEPT ![op][i].val = "b", ![op][i].mod = now]
  /\ now' = now + 1
  /\ UNCHANGED <<BesideRemoteAndClock, rest>>

\* A user of the remote system creates company 2.
RemoteAdd ==
  /\ Len(remote["fetch_companies"]) = 1
  /\ remote' = [remote EXCEPT !["fetch_companies"] = Append(@, [Rec(2, 0, 0, 0) EXCEPT !.mod = now])]
  /\ now' = now + 1
  /\ UNCHANGED <<BesideRemoteAndClock, rest>>

DriftNext ==
  \/ full_sync
  \/ incremental_sync
  \/ \E op \in {"fetch_companies", "fetch_opportunities"} :
       \E i \in DOMAIN remote[op] : RemoteModify(op, i)
  \/ RemoteAdd
  \/ AspireClient
  \/ Fetch
  \/ ProcessRecord
  \/ Return
  \/ Finalize

DriftSpec == DriftInit /\ [][DriftNext]_vars

\* the records a run was returned by the fetch operation op
ReceivedBy(iss, rec, op) ==
  UNION {{rec[i][j] : j \in DOMAIN rec[i]} : i \in {k \in DOMAIN rec : iss[k].op = op}}

\* the current invocation is an incremental run that completed after a full or
\* incremental run that ended in Success
IncrementalAfterSuccess ==
  /\ runs = 2 /\ RunEnded /\ ev = "completed"
  /\ entry = "incremental_sync"
  /\ prev.entry \in {"full_sync", "incremental_sync"}
  /\ prev.ev = "completed" /\ prev.stats.errors = 0

\* C31: no remote modification is lost between consecutive incremental runs: a
\* record modified while a run was in progress, after the run fetched the
\* record's collection and before its completion time was taken, is fetched by
\* the next incremental sync.  Every record the remote held when the next run
\* started, in a version the earlier run was not returned, is returned to the
\* next run.
C31_NoModificationLost ==
  IncrementalAfterSuccess =>
    \A op \in {"fetch_companies", "fetch_opportunities"} :
      \A i \in DOMAIN prev.remote[op] :
        \/ prev.remote[op][i] \in ReceivedBy(prev.issued, prev.received, op)
        \/ \E r \in ReceivedBy(issued, received, op) : r.id = prev.remote[op][i].id

\* C33: an opportunity skipped because its company was unresolved is stored
\* once the company exists locally: after the next incremental sync every
\* remote opportunity whose company has its Customer has its Opportunity, even
\* if the opportunity was not modified since the run that skipped it.
C33_SkippedIsStoredLater ==
  IncrementalAfterSuccess =>
    \A i \in DOMAIN remote["fetch_opportunities"] :
      LET r == remote["fetch_opportunities"][i] IN
      GetValue(store["Customer"], company_id("sync_opportunities", r)) # 0
        => GetValue(store["Opportunity"], r.id) # 0


\* ------------------------------------------- a contact that changes company
\* Company 1 with its contact and an opportunity billed to company 7, which
\* the remote does not hold.
RebindRemote ==
  [op \in FetchOps |->
     CASE op = "fetch_companies"     -> <<Rec(1, 0, 0, 0)>>
       [] op = "fetch_contacts"      -> <<Rec(1, 1, 0, 0)>>
       [] op = "fetch_opportunities" -> <<Rec(1, 1, 7, 0)>>
       [] OTHER                      -> <<>>]

RebindInit ==
  /\ conf = TRUE
  /\ remote = RebindRemote
  /\ Idle

\* A user of the remote system moves contact 1 to company 9, which no sync has
\* stored.
RemoteRebind ==
  /\ remote["fetch_contacts"][1].cid = 1
  /\ remote' = [remote EXCEPT !["fetch_contacts"][1].cid = 9,
                              !["fetch_contacts"][1].mod = now]
  /\ now' = now + 1
  /\ UNCHANGED <<BesideRemoteAndClock, rest>>

RebindNext ==
  \/ full_sync
  \/ incremental_sync
  \/ RemoteRebind
  \/ AspireClient
  \/ Fetch
  \/ ProcessRecord
  \/ Return
  \/ Finalize

RebindSpec == RebindInit /\ [][RebindNext]_vars

====
